---- MODULE Spec2Model ----
(***************************************************************************)
(* Model of the NEXUS workflow execution core (src-tauri/src/workflow and  *)
(* src-tauri/src/process): graph stratification, the static and enhanced   *)
(* level loops, node tasks, the cancellation broadcast and the agent table.*)
(***************************************************************************)
EXTENDS Integers, Sequences, FiniteSets, TLC

VARIABLES
    graph_json,      \* the submitted workflow description (nodes, edges)
    mode,            \* "static" (executor.rs) or "enhanced" (enhanced_executor.rs)
    node_configs,    \* enhanced: node id -> ExecutionCondition
    retry_config,    \* enhanced: RetryConfig of the execution
    execute_result,  \* what the submit call returned
    graph,           \* the WorkflowGraph parsed by the submit call
    stored,          \* the ExecutionStore holds the execution record
    status,          \* WorkflowExecutionState.status
    node_states,     \* WorkflowExecutionState.node_states
    execution_levels,\* WorkflowExecutionState.execution_levels
    emitted,         \* number of workflow events emitted, per event type
    run,             \* the spawned run_execution task and its locals
    tasks,           \* the node tasks spawned by the level loop
    agents,          \* per node: its current agent in AppState.agents and its PTY stream
    cancels,         \* cancel calls made on the execution
    context,         \* enhanced: ExecutionContext outputs, and what nodes read of them
    retry_state,     \* a RetryState and the last call of should_retry made on it
    fallback,        \* enhanced: EnhancedExecutionConfig.fallback
    resources,       \* a ResourceManager and the callers of its operations
    checkpoints,     \* the checkpoint directory and the calls made on its manager
    registry,        \* AGENT_REGISTRY, the agent table, the processes and the calls made
    parsing,         \* a workflow description or a plan, and the graph built from it
    observed         \* what a listener of the workflow events has seen of the levels

vars == <<graph_json, mode, node_configs, retry_config, execute_result, graph,
          stored, status, node_states, execution_levels, emitted, run, tasks,
          agents, cancels, context, retry_state, fallback, resources,
          checkpoints, registry, parsing, observed>>

\* The state of the components that run beside the executors
side_vars == <<retry_state, resources, checkpoints, registry, parsing>>

-----------------------------------------------------------------------------
(* Bounds of the model *)

MaxNodes == 3
MaxEdges == 3
MaxCancels == 2

\* Largest max_attempts of a retry configuration, and the number of calls of
\* should_retry made on one RetryState
MaxAttemptsBound == 2

MaxCalls == 3

\* Concurrent callers of the resource manager, tasks ever queued, and the
\* latest queued_at timestamp
MaxCallers == 3

MaxTasks == 3

MaxClock == 1

\* Checkpoints saved, and seconds of the clock of their timestamps
MaxSaves == 3

MaxTime == 2

\* Calls made on the registry and the agent commands, ticks of the clock of
\* the start times, and the largest max_age of a cleanup
MaxRegistryCalls == 2

MaxRegistryClock == 2

MaxAge == 1

\* Nodes and edges of a description with labelled nodes, tasks of a plan
MaxParseNodes == 2

MaxParseEdges == 1

NodePool == <<"a", "b", "c", "d", "e">>

PoolNodes(k) == {NodePool[i] : i \in 1..k}

RECURSIVE SeqsUpTo(_, _)
SeqsUpTo(S, k) ==
    IF k = 0 THEN {<<>>}
    ELSE LET shorter == SeqsUpTo(S, k - 1)
         IN shorter \cup {Append(s, x) : s \in {t \in shorter : Len(t) = k - 1}, x \in S}

\* Every description with up to MaxNodes nodes and up to MaxEdges edges
\* (self loops, duplicate edges and edges to unknown nodes included).
AllGraphJsons ==
    {[nodes |-> [i \in 1..k |-> NodePool[i]], edges |-> es] :
        k \in 0..MaxNodes,
        es \in SeqsUpTo(PoolNodes(MaxNodes) \X PoolNodes(MaxNodes), MaxEdges)}

-----------------------------------------------------------------------------
(* Graph layer: workflow/graph.rs *)

RECURSIVE SetToSeq(_)
SetToSeq(S) ==
    IF S = {} THEN <<>>
    ELSE LET x == CHOOSE y \in S : TRUE IN <<x>> \o SetToSeq(S \ {x})

SeqRange(s) == {s[i] : i \in DOMAIN s}

RECURSIVE SelectTargets(_, _)
\* successors[n]: the targets of the edges leaving n, in edge order
SelectTargets(edges, n) ==
    IF edges = <<>> THEN <<>>
    ELSE (IF Head(edges)[1] = n THEN <<Head(edges)[2]>> ELSE <<>>)
            \o SelectTargets(Tail(edges), n)

RECURSIVE SelectSources(_, _)
\* predecessors[n]: the sources of the edges entering n, in edge order
SelectSources(edges, n) ==
    IF edges = <<>> THEN <<>>
    ELSE (IF Head(edges)[2] = n THEN <<Head(edges)[1]>> ELSE <<>>)
            \o SelectSources(Tail(edges), n)

NoGraph == [nodes |-> {}, edges |-> <<>>, successors |-> <<>>, predecessors |-> <<>>]

\* WorkflowGraph::from_json: the node map, the edge list and both adjacency maps;
\* an edge whose source or target is not a node is rejected with NodeNotFound.
from_json(json) ==
    LET ids == SeqRange(json.nodes)
        bad == \E i \in DOMAIN json.edges :
                  json.edges[i][1] \notin ids \/ json.edges[i][2] \notin ids
    IN IF bad THEN [ok |-> FALSE, err |-> "NodeNotFound", graph |-> NoGraph]
       ELSE [ok |-> TRUE, err |-> "none",
             graph |-> [nodes |-> ids,
                        edges |-> json.edges,
                        successors |-> [n \in ids |-> SelectTargets(json.edges, n)],
                        predecessors |-> [n \in ids |-> SelectSources(json.edges, n)]]]

\* WorkflowGraph::get_dependencies
get_dependencies(g, n) ==
    IF n \in DOMAIN g.predecessors THEN g.predecessors[n] ELSE <<>>

\* The inner loop of compute_execution_levels over one node's successors:
\* decrement the in-degree, and queue the successor when it reaches zero.
RECURSIVE VisitSuccessorsEarly(_, _)
VisitSuccessorsEarly(succs, st) ==
    IF succs = <<>> THEN st
    ELSE LET s == Head(succs)
             d == st.deg[s] - 1
         IN VisitSuccessorsEarly(Tail(succs),
               [deg |-> [st.deg EXCEPT ![s] = d],
                next |-> IF d \in {0, 1} THEN Append(st.next, s) ELSE st.next])

RECURSIVE VisitSuccessors(_, _)
VisitSuccessors(succs, st) ==
    IF succs = <<>> THEN st
    ELSE LET s == Head(succs)
         IN IF s \in DOMAIN st.deg
            THEN LET d == st.deg[s] - 1
                 IN VisitSuccessors(Tail(succs),
                       [deg |-> [st.deg EXCEPT ![s] = d],
                        next |-> IF d = 0 THEN Append(st.next, s) ELSE st.next])
            ELSE VisitSuccessors(Tail(succs), st)

RECURSIVE VisitLevel(_, _, _)
VisitLevel(g, level, st) ==
    IF level = <<>> THEN st
    ELSE VisitLevel(g, Tail(level),
            IF Head(level) \in DOMAIN g.successors
            THEN VisitSuccessors(g.successors[Head(level)], st)
            ELSE st)

RECURSIVE KahnLoop(_, _, _, _, _)
\* while !queue.is_empty(): drain the queue as one level, then queue next_queue
KahnLoop(g, queue, deg, levels, processed_count) ==
    IF queue = <<>> THEN [levels |-> levels, processed_count |-> processed_count]
    ELSE LET st == VisitLevel(g, queue, [deg |-> deg, next |-> <<>>])
         IN KahnLoop(g, st.next, st.deg, Append(levels, queue),
                     processed_count + Len(queue))

\* The final check of compute_execution_levels
CycleCheckMissing(processed_count, node_count) == FALSE

CycleDetected(processed_count, node_count) == processed_count # node_count

\* WorkflowGraph::compute_execution_levels (Kahn's algorithm)
compute_execution_levels(g) ==
    LET in_degree == [n \in g.nodes |-> Len(get_dependencies(g, n))]
        queue == SetToSeq({n \in g.nodes : in_degree[n] = 0})
        r == KahnLoop(g, queue, in_degree, <<>>, 0)
    IN IF CycleDetected(r.processed_count, Cardinality(g.nodes))
       THEN [ok |-> FALSE, err |-> "CycleDetected", levels |-> <<>>]
       ELSE [ok |-> TRUE, err |-> "none", levels |-> r.levels]

-----------------------------------------------------------------------------
(* Execution state: workflow/state.rs *)

EventTypes == {"ExecutionStarted", "NodeStarted", "NodeCompleted", "NodeFailed",
               "NodeSkipped", "LevelStarted", "LevelCompleted", "ProgressUpdate",
               "ExecutionCompleted", "ExecutionFailed", "ExecutionCancelled"}

NoEvents == [t \in EventTypes |-> 0]

emit_event(ev, t) == [ev EXCEPT ![t] = @ + 1]

\* NodeExecutionState::new
NewNodeState ==
    [status |-> "Pending", progress |-> 0, started |-> FALSE, error |-> "none"]

\* WorkflowExecutionState::new: one Pending node state per node of the levels
NewNodeStates(levels) ==
    [n \in UNION {SeqRange(levels[i]) : i \in DOMAIN levels} |-> NewNodeState]

NoRun == [pc |-> "none", level_idx |-> 0, cancel_rx |-> -1, failed_nodes |-> {},
          node_statuses |-> <<>>, to_dispatch |-> {}, handles |-> {}]

NoTask == [pc |-> "none", cancel_rx |-> -1, attempt |-> 0, result |-> "none", errors |-> <<>>,
           error |-> "none", output |-> FALSE]

NoAgent == [table |-> "absent", stream |-> "none"]

NoCancels == [started |-> 0, sending |-> 0, returned |-> 0, while_running |-> FALSE,
              command |-> "none", command_running |-> FALSE]

\* No ProgressUpdate seen, no LevelCompleted seen, no level cancelled while its
\* node tasks were in flight
NoObserved == [progress_updates |-> <<>>, level_completed |-> {}, cancelled_in_flight |-> {}]

\* What a node has read of the context outputs: nothing yet
NotRead == {"unread"}

NoContext == [outputs |-> {}, condition_view |-> <<>>, prompt_view |-> <<>>]

\* ContextStore::create: no outputs; no node has read the context
NewContext(nodes) ==
    [outputs |-> {},
     condition_view |-> [n \in nodes |-> NotRead],
     prompt_view |-> [n \in nodes |-> NotRead]]

-----------------------------------------------------------------------------
(* Submitting a workflow: WorkflowExecutor::execute and                     *)
(* EnhancedWorkflowExecutor::execute_enhanced                               *)

-----------------------------------------------------------------------------
(* Retry decisions: workflow/retry.rs                                       *)

\* A text is a sequence of words. Words that differ from their lower-case form:
LowerCase ==
    [Failed |-> "failed", Agent |-> "agent", Execution |-> "execution",
     Authentication |-> "authentication", Timeout |-> "timeout",
     ETIMEDOUT |-> "etimedout", ECONNRESET |-> "econnreset"]

Lower(w) == IF w \in DOMAIN LowerCase THEN LowerCase[w] ELSE w

\* str::to_lowercase
to_lowercase(text) == [i \in DOMAIN text |-> Lower(text[i])]

\* str::contains: the pattern occurs contiguously in the text
contains(text, pattern) ==
    \E i \in 0..(Len(text) - Len(pattern)) :
        SubSeq(text, i + 1, i + Len(pattern)) = pattern

\* RetryConfig::default (the fields the decision reads)
DefaultRetryConfig ==
    [max_attempts |-> 3,
     retry_on_timeout |-> TRUE,
     retry_on_api_error |-> TRUE,
     retry_patterns |->
        {<<"rate", "limit">>, <<"connection", "reset">>, <<"temporary", "failure">>,
         <<"service", "unavailable">>, <<"timeout">>, <<"ETIMEDOUT">>,
         <<"ECONNRESET">>},
     no_retry_patterns |->
        {<<"authentication", "failed">>, <<"invalid", "api", "key">>,
         <<"permission", "denied">>, <<"not", "found">>}]

\* for pattern in &self.config.no_retry_patterns { if error_lower.contains(..) }
no_retry_check_skipped(config, error_lower) == FALSE

no_retry_check(config, error_lower) ==
    \E pattern \in config.no_retry_patterns :
        contains(error_lower, to_lowercase(pattern))

\* The flag `should_retry` computed from the timeout and API flags and from
\* the custom patterns
retry_check(config, error_lower) ==
    \/ /\ config.retry_on_timeout
       /\ \/ contains(error_lower, <<"timeout">>)
          \/ contains(error_lower, <<"timed", "out">>)
    \/ /\ config.retry_on_api_error
       /\ \/ contains(error_lower, <<"api">>)
          \/ contains(error_lower, <<"rate", "limit">>)
    \/ \E pattern \in config.retry_patterns :
            contains(error_lower, to_lowercase(pattern))

\* RetryState::should_retry: the attempt counter afterwards and the decision
should_retry(config, current_attempt, error) ==
    LET attempt == current_attempt + 1
        error_lower == to_lowercase(error)
    IN [attempt |-> attempt,
        decision |->
            IF attempt > config.max_attempts THEN "Exhausted"
            ELSE IF no_retry_check(config, error_lower) THEN "NoRetry"
            ELSE IF ~retry_check(config, error_lower) THEN "NoRetry"
            ELSE "Retry"]

\* RetryState::new, before any call of should_retry
NewRetryState(config) ==
    [config |-> config, current_attempt |-> 0, error |-> <<>>, decision |-> "none"]

NoRetryState == NewRetryState(DefaultRetryConfig)

\* The error texts of a node task, by kind of error
ErrorKinds == {"spawn", "cancelled", "killed", "failed", "timeout"}

ErrorText(kind) ==
    CASE kind = "spawn" -> <<"Failed", "to", "spawn", "agent">>
      [] kind = "cancelled" -> <<"Execution", "cancelled">>
      [] kind = "killed" -> <<"Agent", "was", "killed">>
      [] kind = "failed" -> <<"Agent", "execution", "failed">>
      [] kind = "timeout" -> <<"Agent", "did", "not", "complete", "within", "seconds">>

-----------------------------------------------------------------------------
(* Resource manager: workflow/resources.rs                                  *)

\* enum TaskPriority
Low == 0

Normal == 1

High == 2

Critical == 3

TaskPriorities == {Low, Normal, High, Critical}

Roles == {"implementer", "tester"}

Callers == 1..MaxCallers

\* Ord::cmp of two integers
Cmp(x, y) == IF x < y THEN "Less" ELSE IF x > y THEN "Greater" ELSE "Equal"

\* Ordering::reverse
Reverse(ord) ==
    CASE ord = "Less" -> "Greater" [] ord = "Greater" -> "Less" [] OTHER -> ord

\* impl Ord for QueuedTask
QueuedTask_cmp(self, other) ==
    LET ord == Cmp(self.priority, other.priority)
    IN IF ord = "Equal" THEN Cmp(other.queued_at, self.queued_at)
       ELSE Reverse(ord)

\* BinaryHeap::pop: a greatest task of the heap
HeapTop(queue) ==
    {t \in queue : \A u \in queue : QueuedTask_cmp(t, u) # "Less"}

\* ResourceConfig with the defaults of the fields the model reads
ResourceConfig(max_agents, per_role, max_queue_size, rate_limit) ==
    [max_concurrent_agents |-> max_agents,
     max_agents_per_role |-> per_role,
     max_queue_size |-> max_queue_size,
     rate_limit_per_minute |-> rate_limit]

NoCaller == [pc |-> "idle", role |-> "none", result |-> "none"]

\* Option<T>: None is the empty set, Some(x) the singleton of x
None == {}

Some(x) == {x}

NoReturn == [op |-> "none", queue |-> {}, task |-> None, result |-> "none"]

\* RateLimiter::new: the bucket size of an enabled limiter (a disabled one
\* never reads its tokens)
max_tokens(rate_per_minute) ==
    IF rate_per_minute = None THEN 0
    ELSE CHOOSE n \in rate_per_minute : TRUE

\* A thread inside RateLimiter::try_acquire: where it is, the token count it
\* loaded last and the tokens_to_add of its refill
NoLimiterCall == [pc |-> "idle", current |-> 0, tokens_to_add |-> 0, result |-> "none"]

\* The threads in try_acquire, the holder of the last_refill mutex, and the
\* numbers of calls begun, of calls that returned true and of tokens that
\* refills have added
NoLimiter ==
    [threads |-> [c \in Callers |-> NoLimiterCall], last_refill |-> None,
     calls |-> 0, acquired |-> 0, added |-> 0]

\* ResourceManager::new
ResourceManager_new(config) ==
    [config |-> config,
     permits |-> config.max_concurrent_agents,
     active_agents |-> 0,
     active_per_role |-> [r \in Roles |-> 0],
     tokens |-> max_tokens(config.rate_limit_per_minute),
     task_queue |-> {},
     queued |-> 0,
     returned |-> NoReturn,
     callers |-> [c \in Callers |-> NoCaller],
     semaphore |-> 0,
     held |-> [c \in Callers |-> None],
     dropped |-> 0,
     limiter |-> NoLimiter]

\* Drop of the OwnedSemaphorePermit of caller c: the permit goes back to the
\* semaphore it was acquired from, which is the manager's semaphore only as
\* long as update_config has not replaced it
drop_permit(rm, c) ==
    [rm EXCEPT !.permits = IF rm.held[c] = Some(rm.semaphore) THEN @ + 1 ELSE @,
               !.held[c] = None]

\* max_concurrent_agents: 1, no role cap, rate limit disabled
SingleAgentConfig == ResourceConfig(1, <<>>, MaxTasks, None)

\* RateLimiter::try_acquire after a refill of tokens_to_add tokens
try_acquire(rm, tokens_to_add) ==
    IF rm.config.rate_limit_per_minute = None
    THEN [ok |-> TRUE, tokens |-> rm.tokens]
    ELSE LET max == max_tokens(rm.config.rate_limit_per_minute)
             sum == rm.tokens + tokens_to_add
             refilled == IF sum > max THEN max ELSE sum
         IN IF refilled = 0 THEN [ok |-> FALSE, tokens |-> 0]
            ELSE [ok |-> TRUE, tokens |-> refilled - 1]

\* if current >= max
role_limit_reached_late(current, max) == current > max

role_limit_reached(current, max) == current >= max

\* ResourceManager::queue_task
queue_task(rm, task) ==
    IF Cardinality(rm.task_queue) >= rm.config.max_queue_size
    THEN [rm EXCEPT !.returned = [op |-> "queue_task", queue |-> rm.task_queue,
                                  task |-> None, result |-> "QueueFull"]]
    ELSE [rm EXCEPT !.task_queue = @ \cup {task},
                    !.returned = [op |-> "queue_task", queue |-> rm.task_queue,
                                  task |-> None, result |-> "Ok"]]

\* ResourceManager::dequeue_task, returning `task`: Some top of the heap, or
\* None
dequeue_task(rm, task) ==
    [rm EXCEPT !.task_queue = @ \ task,
               !.returned = [op |-> "dequeue_task", queue |-> rm.task_queue,
                             task |-> task, result |-> "none"]]

-----------------------------------------------------------------------------
(* Checkpoints: workflow/checkpoint.rs, create_checkpoint                    *)
(* (enhanced_executor.rs)                                                   *)

ExecutionIds == {"E1", "E2"}

\* Uuid::new_v4 of the k-th checkpoint
CheckpointIdPool == <<"c1", "c2", "c3", "c4", "c5">>

\* The clock, in seconds: Utc::now() formatted with %Y%m%d and with %H%M%S
DateText == "20260101"

TimeTextPool == <<"120000", "120001", "120002", "120003", "120004">>

\* checkpoint_at.format("%Y%m%d_%H%M%S")
format_timestamp(t) == <<DateText, "_", TimeTextPool[t]>>

\* NaiveDateTime::parse_from_str(text, "%Y%m%d_%H%M%S")
parse_from_str(text) ==
    IF /\ Len(text) = 3
       /\ text[1] = DateText
       /\ text[2] = "_"
       /\ \E t \in DOMAIN TimeTextPool : TimeTextPool[t] = text[3]
    THEN Some(CHOOSE t \in DOMAIN TimeTextPool : TimeTextPool[t] = text[3])
    ELSE None

\* str::split('_'): the pieces between the separators
RECURSIVE split(_)
split(text) ==
    IF \A i \in DOMAIN text : text[i] # "_" THEN <<text>>
    ELSE LET i == CHOOSE j \in DOMAIN text :
                    text[j] = "_" /\ \A k \in 1..(j - 1) : text[k] # "_"
         IN <<SubSeq(text, 1, i - 1)>> \o split(SubSeq(text, i + 1, Len(text)))

\* Iterator::nth
nth(pieces, n) == IF n + 1 \in DOMAIN pieces THEN Some(pieces[n + 1]) ELSE None

\* str::trim_end_matches(".checkpoint.json")
RECURSIVE trim_end_matches(_)
trim_end_matches(text) ==
    IF text # <<>> /\ text[Len(text)] = ".checkpoint.json"
    THEN trim_end_matches(SubSeq(text, 1, Len(text) - 1))
    ELSE text

\* Path::extension() == "json"
has_json_extension(name) == name # <<>> /\ name[Len(name)] = ".checkpoint.json"

\* str::starts_with
starts_with(text, prefix) ==
    Len(prefix) <= Len(text) /\ SubSeq(text, 1, Len(prefix)) = prefix

\* format!("{}_{}.checkpoint.json", execution_id, checkpoint_at.format(..))
checkpoint_filename(checkpoint) ==
    <<checkpoint.execution_id, "_">> \o format_timestamp(checkpoint.checkpoint_at)
        \o <<".checkpoint.json">>

\* create_checkpoint and ExecutionCheckpoint::new
create_checkpoint(state, id, now) ==
    [id |-> id,
     execution_id |-> state.execution_id,
     status |-> state.status,
     node_states |-> state.node_states,
     execution_levels |-> state.execution_levels,
     variables |-> state.variables,
     outputs |-> <<>>,
     checkpoint_at |-> now,
     current_level |-> state.current_level]

CheckpointFields ==
    {"id", "execution_id", "status", "node_states", "execution_levels",
     "variables", "outputs", "checkpoint_at", "current_level"}

\* serde_json::to_string_pretty: the members of the JSON object
to_string_pretty(checkpoint) == {<<k, checkpoint[k]>> : k \in CheckpointFields}

\* serde_json::from_str::<ExecutionCheckpoint>
from_str(json) ==
    [k \in CheckpointFields |-> (CHOOSE m \in json : m[1] = k)[2]]

\* std::fs::write(path, json)
fs_write(dir, path, json) ==
    [f \in DOMAIN dir \cup {path} |-> IF f = path THEN json ELSE dir[f]]

\* CheckpointManager::save
save(dir, checkpoint) ==
    fs_write(dir, checkpoint_filename(checkpoint), to_string_pretty(checkpoint))

\* CheckpointManager::load: the files that match the checkpoint ID
load_matches(dir, checkpoint_id) ==
    {f \in DOMAIN dir : has_json_extension(f) /\ contains(f, <<checkpoint_id>>)}

\* CheckpointManager::load_latest: the files of the execution whose name
\* yields a timestamp, with that timestamp
load_latest_candidates(dir, execution_id) ==
    {<<f, dt>> \in (DOMAIN dir) \X (DOMAIN TimeTextPool) :
        /\ has_json_extension(f)
        /\ starts_with(f, <<execution_id>>)
        /\ \E ts_str \in nth(split(f), 1) :
                parse_from_str(trim_end_matches(ts_str)) = Some(dt)}

\* checkpoints.sort_by(|a, b| b.1.cmp(&a.1)), checkpoints.first()
load_latest_first(candidates) ==
    {c \in candidates : \A d \in candidates : d[2] <= c[2]}

NoLoad == [op |-> "none", arg |-> "none", result |-> None]

NoCheckpoints == [dir |-> <<>>, now |-> 1, saved |-> <<>>, loaded |-> NoLoad]

-----------------------------------------------------------------------------

-----------------------------------------------------------------------------
(* The process registry (process/registry.rs, unix build) and the agent     *)
(* commands (commands/agent.rs, api/routes.rs)                              *)

AgentIds == {"A1", "A2"}

\* AgentProcess as register_pty_agent stores it: child: None
PtyProcess == [child |-> None]

\* AgentProcess as register stores it: child: Some(child)
ChildProcess == [child |-> Some("Child")]

\* std::process::Child::try_wait on a process in state os; io is the failure
\* the system call meets, if any
child_try_wait(os, io) ==
    IF io = "wait_err" THEN "Err"
    ELSE IF os = "exited" THEN "Exited" ELSE "StillRunning"

\* AgentRegistry::kill_graceful on the entry processes.get_mut gave: the result,
\* the signals sent, the process at the end of the grace period and at return
kill_graceful(entry, os, exits_on_term, io) ==
    IF entry = None
    THEN [result |-> FALSE, signals |-> <<>>, at_deadline |-> os, os |-> os]
    ELSE LET process == CHOOSE p \in entry : TRUE
             at_deadline == IF os = "running" /\ exits_on_term THEN "exited" ELSE os
             sigterm == [result |-> FALSE, signals |-> <<"SIGTERM">>,
                         at_deadline |-> at_deadline, os |-> at_deadline]
         IN IF process.child = None THEN sigterm
            ELSE CASE child_try_wait(at_deadline, io) = "Exited" ->
                        [sigterm EXCEPT !.result = TRUE]
                   [] child_try_wait(at_deadline, io) = "StillRunning" ->
                        IF io = "kill_err"
                        THEN [sigterm EXCEPT !.signals = <<"SIGTERM", "SIGKILL">>]
                        ELSE [sigterm EXCEPT !.result = TRUE,
                                             !.signals = <<"SIGTERM", "SIGKILL">>,
                                             !.os = "exited"]
                   [] OTHER -> sigterm

\* AgentRegistry::try_wait: Option<bool>
try_wait(entry, os, io, success) ==
    IF entry # None /\ (CHOOSE p \in entry : TRUE).child # None
    THEN CASE child_try_wait(os, io) = "Exited" -> Some(success)
           [] child_try_wait(os, io) = "StillRunning" -> None
           [] OTHER -> Some(FALSE)
    ELSE Some(FALSE)

\* start.elapsed() of a start time
elapsed(start, now) == now - start

\* AgentRegistry::cleanup_old_agents: the collected to_remove
to_remove(reg, max_age, io, success) ==
    {id \in AgentIds :
        /\ reg.start_times[id] # None
        /\ \E start \in reg.start_times[id] : elapsed(start, reg.now) > max_age
        /\ try_wait(reg.processes[id], reg.os[id], io, success) # None}

\* oneshot::Sender::send for the senders txs: their receivers hold the value
send_all(receivers, txs) ==
    [i \in DOMAIN receivers |->
        IF i \in txs THEN [receivers[i] EXCEPT !.state = "Ok"] ELSE receivers[i]]

\* Drop of the senders txs without a send: their receivers get RecvError
drop_senders(receivers, txs) ==
    [i \in DOMAIN receivers |->
        IF i \in txs THEN [receivers[i] EXCEPT !.state = "Err"] ELSE receivers[i]]

\* AgentRegistry::subscribe_completion: a new oneshot channel whose sender is
\* pushed to the agent's entry of completion_channels; the receiver is returned
subscribe_completion(reg, id) ==
    LET rx == Len(reg.receivers) + 1
    IN [reg EXCEPT !.completion_channels[id] = @ \cup {rx},
                   !.receivers = Append(@, [agent |-> id, state |-> "pending",
                                            stream |-> reg.streams[id]])]

\* AgentRegistry::notify_completion: the entry of the agent is removed and the
\* completion is sent on every sender it held
notify_completion(reg, id) ==
    [reg EXCEPT !.completion_channels[id] = {},
                !.receivers = send_all(@, reg.completion_channels[id])]

\* AgentRegistry::remove, for every agent of ids
remove(reg, ids) ==
    [reg EXCEPT !.processes = [id \in AgentIds |-> IF id \in ids THEN None ELSE @[id]],
                !.start_times = [id \in AgentIds |-> IF id \in ids THEN None ELSE @[id]],
                !.completion_channels = [id \in AgentIds |-> IF id \in ids THEN {} ELSE @[id]],
                !.receivers = drop_senders(@, UNION {reg.completion_channels[id] : id \in ids})]

\* AgentRegistry::new, an empty agent table, no process, no call made
NoRegistry ==
    [processes |-> [id \in AgentIds |-> None],
     start_times |-> [id \in AgentIds |-> None],
     agents |-> [id \in AgentIds |-> "absent"],
     os |-> [id \in AgentIds |-> "none"],
     now |-> 0,
     calls |-> <<>>,
     completion_channels |-> [id \in AgentIds |-> {}],
     receivers |-> <<>>,
     streams |-> [id \in AgentIds |-> "none"]]

\* The registry, the agent table and the processes, without the calls
Snapshot(reg) ==
    [processes |-> reg.processes, start_times |-> reg.start_times,
     agents |-> reg.agents, os |-> reg.os, now |-> reg.now]

\* A call of an operation, what it returned and did, and the state around it
Call(op, id, io, result, signals, at_deadline, max_age, removed, before, after) ==
    [op |-> op, id |-> id, io |-> io, result |-> result, signals |-> signals,
     at_deadline |-> at_deadline, max_age |-> max_age, removed |-> removed,
     before |-> Snapshot(before), after |-> Snapshot(after)]

-----------------------------------------------------------------------------
(* Node maps: the nodes of a description or the tasks of a plan, each with   *)
(* its ID and its label (graph.rs from_json, orchestrator.rs plan_to_graph) *)

\* for each node in order, nodes.insert(id, parsed): HashMap::insert replaces
\* the value of a key the map already has
insert_all(rf_nodes) ==
    [id \in {rf_nodes[i].id : i \in DOMAIN rf_nodes} |->
        LET last == CHOOSE i \in DOMAIN rf_nodes :
                        /\ rf_nodes[i].id = id
                        /\ \A j \in DOMAIN rf_nodes : rf_nodes[j].id = id => j <= i
        IN rf_nodes[last].label]

\* WorkflowGraph::from_json with the content of the node map
from_json_nodes(rf_nodes, rf_edges) ==
    LET parsed == from_json([nodes |-> [i \in DOMAIN rf_nodes |-> rf_nodes[i].id],
                             edges |-> rf_edges])
    IN [ok |-> parsed.ok, err |-> parsed.err,
        nodes |-> IF parsed.ok THEN insert_all(rf_nodes) ELSE <<>>,
        edges |-> parsed.graph.edges]

RECURSIVE dependency_edges(_, _, _)
\* The inner loop of plan_to_graph: an edge for every dependency that is a node
dependency_edges(depends_on, id, nodes) ==
    IF depends_on = <<>> THEN <<>>
    ELSE (IF Head(depends_on) \in DOMAIN nodes THEN << <<Head(depends_on), id>> >>
          ELSE <<>>)
            \o dependency_edges(Tail(depends_on), id, nodes)

RECURSIVE plan_edges(_, _)
plan_edges(plan_tasks, nodes) ==
    IF plan_tasks = <<>> THEN <<>>
    ELSE dependency_edges(Head(plan_tasks).depends_on, Head(plan_tasks).id, nodes)
            \o plan_edges(Tail(plan_tasks), nodes)

\* plan_to_graph: it returns a WorkflowGraph, never an error
plan_to_graph(plan_tasks) ==
    LET nodes == insert_all(plan_tasks)
    IN [ok |-> TRUE, err |-> "none", nodes |-> nodes, edges |-> plan_edges(plan_tasks, nodes)]

NoParse == [op |-> "none", ok |-> FALSE, err |-> "none", nodes |-> <<>>, edges |-> <<>>]

NoParsing == [kind |-> "none", nodes |-> <<>>, edges |-> <<>>, result |-> NoParse]

Rejected(err) ==
    /\ execute_result' = err
    /\ UNCHANGED <<stored, status, node_states, execution_levels, emitted, run,
                   tasks, agents, context>>

Execute ==
    /\ execute_result = "none"
    /\ LET parsed == from_json(graph_json)
       IN /\ graph' = parsed.graph
          /\ IF ~parsed.ok THEN Rejected(parsed.err)
             ELSE IF parsed.graph.nodes = {} THEN Rejected("InvalidFormat")
             ELSE LET lv == compute_execution_levels(parsed.graph)
                  IN IF ~lv.ok THEN Rejected(lv.err)
                     ELSE /\ execute_result' = "Ok"
                          /\ execution_levels' = lv.levels
                          /\ node_states' = NewNodeStates(lv.levels)
                          /\ status' = "Pending"
                          /\ stored' = TRUE
                          /\ emitted' = emit_event(emitted, "ExecutionStarted")
                          /\ run' = [NoRun EXCEPT !.pc = "start",
                                        !.node_statuses =
                                            [n \in parsed.graph.nodes |-> "none"]]
                          /\ tasks' = [n \in parsed.graph.nodes |-> NoTask]
                          /\ agents' = [n \in parsed.graph.nodes |-> NoAgent]
                          /\ context' = NewContext(parsed.graph.nodes)
    /\ UNCHANGED <<graph_json, mode, node_configs, retry_config, cancels,
                   fallback, side_vars, observed>>

InitCommon ==
    /\ execute_result = "none"
    /\ graph = NoGraph
    /\ stored = FALSE
    /\ status = "none"
    /\ node_states = <<>>
    /\ execution_levels = <<>>
    /\ emitted = NoEvents
    /\ run = NoRun
    /\ tasks = <<>>
    /\ agents = <<>>
    /\ cancels = NoCancels
    /\ context = NoContext
    /\ observed = NoObserved

RetryIdle == retry_state = NoRetryState

\* The executors run beside a resource manager that admits one agent at a time
ResourcesIdle == resources = ResourceManager_new(SingleAgentConfig)

CheckpointsIdle == checkpoints = NoCheckpoints

RegistryIdle == registry = NoRegistry

ParsingIdle == parsing = NoParsing

InitExecution ==
    /\ InitCommon
    /\ RetryIdle
    /\ ResourcesIdle
    /\ CheckpointsIdle
    /\ RegistryIdle
    /\ ParsingIdle

AlwaysCondition == [type |-> "Always", predecessor_id |-> "none"]

\* RetryConfig::no_retry
NoRetryConfig == [DefaultRetryConfig EXCEPT !.max_attempts = 0]

\* Stratification of every bounded workflow description
InitGraph ==
    /\ graph_json \in AllGraphJsons
    /\ mode \in {"static", "enhanced"}
    /\ node_configs = [n \in SeqRange(graph_json.nodes) |-> AlwaysCondition]
    /\ retry_config = NoRetryConfig
    /\ fallback = "FailWorkflow"
    /\ InitExecution

SpecGraph == InitGraph /\ [][Execute]_vars

-----------------------------------------------------------------------------
(* Cancellation signal: tokio broadcast channel created in                  *)
(* WorkflowExecutionState::new, receivers made by subscribe_cancel          *)

ChannelCapacity == 1

\* A receiver is the number of signals sent since it last received (-1: no
\* receiver). More than ChannelCapacity of them means the oldest were
\* overwritten: the next try_recv reports Lagged and skips to the retained ones.
subscribe_cancel == 0

broadcast_send(rx) ==
    IF rx < 0 THEN rx
    ELSE IF rx > ChannelCapacity THEN rx ELSE rx + 1

\* cancel_rx.try_recv().is_ok() and the receiver afterwards
try_recv_is_ok(rx) ==
    IF rx <= 0 THEN [ok |-> FALSE, rx |-> rx]
    ELSE IF rx > ChannelCapacity THEN [ok |-> FALSE, rx |-> ChannelCapacity]
    ELSE [ok |-> TRUE, rx |-> rx - 1]

\* Node tasks of the current level have been spawned and not all have returned
in_flight == \E n \in run.handles : tasks[n].pc # "done"

\* WorkflowExecutionState::cancel, first statement: cancel_tx.send(())
CancelSend ==
    /\ stored
    /\ cancels.started < MaxCancels
    /\ run' = [run EXCEPT !.cancel_rx = broadcast_send(@)]
    /\ tasks' = [n \in DOMAIN tasks |->
                    [tasks[n] EXCEPT !.cancel_rx = broadcast_send(@)]]
    /\ cancels' = [cancels EXCEPT !.started = @ + 1, !.sending = @ + 1,
                                  !.while_running = @ \/ status = "Running"]
    /\ UNCHANGED <<graph_json, mode, node_configs, retry_config, execute_result,
                   graph, stored, status, node_states, execution_levels, emitted,
                   agents, context, fallback, side_vars>>
    /\ observed' = IF in_flight
                   THEN [observed EXCEPT !.cancelled_in_flight = @ \cup {run.level_idx}]
                   ELSE observed

\* WorkflowExecutionState::cancel, second statement: set_status(Cancelled)
CancelSetStatus ==
    /\ cancels.sending > 0
    /\ status' = "Cancelled"
    /\ cancels' = [cancels EXCEPT !.sending = @ - 1, !.returned = @ + 1]
    /\ UNCHANGED <<graph_json, mode, node_configs, retry_config, execute_result,
                   graph, stored, node_states, execution_levels, emitted, run,
                   tasks, agents, context, fallback, side_vars, observed>>

-----------------------------------------------------------------------------
(* Node state transitions: NodeExecutionState in workflow/state.rs *)

ns_start(ns) == [ns EXCEPT !.status = "Running", !.started = TRUE, !.progress = 0]

ns_complete(ns) == [ns EXCEPT !.status = "Completed", !.progress = 100]

ns_fail(ns, error) == [ns EXCEPT !.status = "Failed", !.error = error]

ns_skip(ns, reason) == [ns EXCEPT !.status = "Skipped", !.error = reason]

\* WorkflowExecutionState::completed_nodes
completed_nodes(states) ==
    Cardinality({n \in DOMAIN states :
                    states[n].status \in {"Completed", "Failed", "Skipped"}})

RECURSIVE SumProgress(_, _)
SumProgress(states, S) ==
    IF S = {} THEN 0
    ELSE LET n == CHOOSE m \in S : TRUE
         IN states[n].progress + SumProgress(states, S \ {n})

\* WorkflowExecutionState::get_overall_progress
get_overall_progress(states) ==
    LET total == Cardinality(DOMAIN states)
    IN IF total = 0 THEN 100
       ELSE (SumProgress(states, DOMAIN states) * 100) \div (total * 100)

-----------------------------------------------------------------------------
(* Conditions: workflow/conditions.rs                                       *)

ConditionTypes == {"Always", "Never", "OnSuccess", "OnFailure",
                   "AllPredecessorsSucceeded", "AnyPredecessorSucceeded"}

StatusIn(node_statuses, id, st) ==
    id \in DOMAIN node_statuses /\ node_statuses[id] = st

\* ExecutionCondition::evaluate_inner, the status-based variants: should_execute
evaluate(condition, node_statuses, predecessor_ids) ==
    CASE condition.type = "Always" -> TRUE
      [] condition.type = "Never" -> FALSE
      [] condition.type = "OnSuccess" ->
            StatusIn(node_statuses, condition.predecessor_id, "Completed")
      [] condition.type = "OnFailure" ->
            StatusIn(node_statuses, condition.predecessor_id, "Failed")
      [] condition.type = "AllPredecessorsSucceeded" ->
            \A i \in DOMAIN predecessor_ids :
                StatusIn(node_statuses, predecessor_ids[i], "Completed")
      [] condition.type = "AnyPredecessorSucceeded" ->
            \E i \in DOMAIN predecessor_ids :
                StatusIn(node_statuses, predecessor_ids[i], "Completed")

-----------------------------------------------------------------------------
(* The level loop: run_execution (executor.rs) and run_enhanced_execution   *)
(* (enhanced_executor.rs)                                                   *)

Unchanged_config_but_observed ==
    UNCHANGED <<graph_json, mode, node_configs, retry_config, execute_result, graph,
                stored, execution_levels, fallback, side_vars>>

Unchanged_config ==
    /\ Unchanged_config_but_observed
    /\ UNCHANGED observed

\* state.set_status(ExecutionStatus::Running)
RunStart ==
    /\ run.pc = "start"
    /\ status' = "Running"
    /\ run' = [run EXCEPT !.pc = "subscribe"]
    /\ Unchanged_config
    /\ UNCHANGED <<node_states, emitted, tasks, agents, cancels, context>>

\* let mut cancel_rx = state.subscribe_cancel()
RunSubscribe ==
    /\ run.pc = "subscribe"
    /\ run' = [run EXCEPT !.pc = "check", !.cancel_rx = subscribe_cancel,
                          !.level_idx = 1]
    /\ Unchanged_config
    /\ UNCHANGED <<status, node_states, emitted, tasks, agents, cancels, context>>

\* Top of the for loop: the cancellation check before a level, or the loop's end
LevelCheckNoReturn ==
    /\ run.pc = "check"
    /\ IF run.level_idx > Len(execution_levels)
       THEN /\ run' = [run EXCEPT !.pc = "final"]
            /\ UNCHANGED emitted
       ELSE LET r == try_recv_is_ok(run.cancel_rx)
            IN /\ run' = [run EXCEPT !.pc = "partition", !.cancel_rx = r.rx]
               /\ emitted' = IF r.ok THEN emit_event(emitted, "ExecutionCancelled")
                             ELSE emitted
    /\ Unchanged_config
    /\ UNCHANGED <<status, node_states, tasks, agents, cancels, context>>

LevelCheck ==
    /\ run.pc = "check"
    /\ IF run.level_idx > Len(execution_levels)
       THEN /\ run' = [run EXCEPT !.pc = "final"]
            /\ UNCHANGED emitted
       ELSE LET r == try_recv_is_ok(run.cancel_rx)
            IN IF r.ok
               THEN /\ emitted' = emit_event(emitted, "ExecutionCancelled")
                    /\ run' = [run EXCEPT !.pc = "done", !.cancel_rx = -1]
               ELSE /\ run' = [run EXCEPT !.pc = "partition", !.cancel_rx = r.rx]
                    /\ UNCHANGED emitted
    /\ Unchanged_config
    /\ UNCHANGED <<status, node_states, tasks, agents, cancels, context>>

\* let has_failed_dep = deps.iter().any(|dep| failed_nodes.contains(dep))
has_failed_dep_all(deps, failed_nodes) ==
    deps # <<>> /\ \A i \in DOMAIN deps : deps[i] \in failed_nodes

has_failed_dep(deps, failed_nodes) ==
    \E i \in DOMAIN deps : deps[i] \in failed_nodes

\* A partition in which the condition of an enhanced node decides before the
\* failed dependencies are looked at
SkipReason_condition_decides(n) ==
    LET deps == get_dependencies(graph, n)
    IN IF mode = "enhanced" /\ node_configs[n].type # "Always"
       THEN IF evaluate(node_configs[n], run.node_statuses, deps) THEN "run"
            ELSE "Condition not met"
       ELSE IF has_failed_dep(deps, run.failed_nodes) THEN "Dependency failed"
       ELSE "run"

\* The reason a node of the level is skipped with, or "run"
SkipReason(n) ==
    LET deps == get_dependencies(graph, n)
    IN IF has_failed_dep(deps, run.failed_nodes) THEN "Dependency failed"
       ELSE IF mode = "enhanced"
               /\ ~evaluate(node_configs[n], run.node_statuses, deps)
            THEN "Condition not met"
       ELSE "run"

\* Partition of the level into nodes_to_run and nodes_to_skip, the skips, and
\* LevelStarted (or `continue` when nothing is to run)
LevelPartition ==
    /\ run.pc = "partition"
    /\ LET level == SeqRange(execution_levels[run.level_idx])
           nodes_to_skip == {n \in level : SkipReason(n) # "run"}
           nodes_to_run == level \ nodes_to_skip
           skipped == [emitted EXCEPT !["NodeSkipped"] = @ + Cardinality(nodes_to_skip)]
           statuses == IF mode = "enhanced"
                       THEN [n \in DOMAIN run.node_statuses |->
                               IF n \in nodes_to_skip THEN "Skipped"
                               ELSE run.node_statuses[n]]
                       ELSE run.node_statuses
       IN /\ node_states' = [n \in DOMAIN node_states |->
                               IF n \in nodes_to_skip
                               THEN ns_skip(node_states[n], SkipReason(n))
                               ELSE node_states[n]]
          /\ IF nodes_to_run = {}
             THEN /\ run' = [run EXCEPT !.pc = "check", !.level_idx = @ + 1,
                                        !.node_statuses = statuses]
                  /\ emitted' = skipped
             ELSE /\ run' = [run EXCEPT !.pc = "dispatch", !.to_dispatch = nodes_to_run,
                                        !.handles = {}, !.node_statuses = statuses]
                  /\ emitted' = emit_event(skipped, "LevelStarted")
          \* condition.evaluate(&context, ...) of the nodes without a failed dependency
          /\ context' = IF mode = "enhanced"
                         THEN [context EXCEPT !.condition_view =
                                 [n \in DOMAIN @ |->
                                     IF n \in level /\ SkipReason(n) # "Dependency failed"
                                     THEN context.outputs ELSE @[n]]]
                         ELSE context
    /\ Unchanged_config
    /\ UNCHANGED <<status, tasks, agents, cancels>>

\* One iteration of the spawn loop: subscribe_cancel for the node, tokio::spawn
Dispatch(n) ==
    /\ run.pc = "dispatch"
    /\ n \in run.to_dispatch
    /\ tasks' = [tasks EXCEPT ![n] = [NoTask EXCEPT !.pc = "spawn",
                                                    !.cancel_rx = subscribe_cancel]]
    /\ run' = [run EXCEPT !.to_dispatch = @ \ {n},
                          !.handles = @ \cup {n},
                          !.pc = IF run.to_dispatch = {n} THEN "join" ELSE "dispatch"]
    /\ Unchanged_config
    /\ UNCHANGED <<status, node_states, emitted, agents, cancels, context>>

\* Await of every handle of the level, then LevelCompleted and ProgressUpdate
\* (the executions of the catalogue run without a checkpoint manager: the
\* checkpoint after the level is taken under SpecCheckpoints)
LevelJoin ==
    /\ run.pc = "join"
    /\ \A n \in run.handles : tasks[n].pc = "done"
    /\ LET failed == {n \in run.handles : tasks[n].result = "Err"}
       IN run' = [run EXCEPT
                    !.pc = "check",
                    !.level_idx = @ + 1,
                    !.handles = {},
                    !.failed_nodes = @ \cup failed,
                    !.node_statuses =
                        IF mode = "enhanced"
                        THEN [n \in DOMAIN run.node_statuses |->
                                IF n \in failed THEN "Failed"
                                ELSE IF n \in run.handles THEN "Completed"
                                ELSE run.node_statuses[n]]
                        ELSE @]
    /\ emitted' = emit_event(emit_event(emitted, "LevelCompleted"), "ProgressUpdate")
    /\ observed' = [observed EXCEPT
                        !.level_completed = @ \cup {run.level_idx},
                        !.progress_updates = Append(@, get_overall_progress(node_states))]
    /\ Unchanged_config_but_observed
    /\ UNCHANGED <<status, node_states, tasks, agents, cancels, context>>

\* After the last level: the final status and the terminal event
Finalize ==
    /\ run.pc = "final"
    /\ IF run.failed_nodes = {}
       THEN /\ status' = "Completed"
            /\ emitted' = emit_event(emitted, "ExecutionCompleted")
       ELSE /\ status' = "Failed"
            /\ emitted' = emit_event(emitted, "ExecutionFailed")
    /\ run' = [run EXCEPT !.pc = "done", !.cancel_rx = -1]
    /\ Unchanged_config
    /\ UNCHANGED <<node_states, tasks, agents, cancels, context>>

-----------------------------------------------------------------------------
(* Node tasks: spawn_node_execution / wait_for_agent_completion             *)
(* (executor.rs) and spawn_enhanced_node_execution (enhanced_executor.rs)   *)

QuickMaxAttempts == 2

\* RetryConfig::quick with retry_patterns that match the texts of spawn
\* failures and of wait timeouts (the default patterns match neither text)
QuickRetryConfig ==
    [DefaultRetryConfig EXCEPT
        !.max_attempts = QuickMaxAttempts,
        !.retry_patterns = @ \cup {<<"failed", "to", "spawn">>,
                                   <<"did", "not", "complete">>}]

TaskDone(t, result, error) ==
    [t EXCEPT !.pc = "done", !.cancel_rx = -1, !.result = result, !.error = error]

\* The node state after an attempt of the enhanced retry loop ended in `error`
\* and should_retry gave `decision`: only a final failure marks the node Failed.
FailBeforeRetry(ns, decision, error) == ns_fail(ns, error)

AfterAttemptError(ns, decision, error) ==
    IF decision = "Retry" THEN ns ELSE ns_fail(ns, error)

\* What an attempt's error does to the node, the task and the events.
\* Static: the node fails. Enhanced: should_retry decides between another
\* iteration of the retry loop (after the backoff sleep) and the final failure.
AttemptFailed(n, rx, error) ==
    IF mode = "static"
    THEN /\ node_states' = [node_states EXCEPT ![n] = ns_fail(@, error)]
         /\ emitted' = emit_event(emitted, "NodeFailed")
         /\ tasks' = [tasks EXCEPT ![n] = TaskDone(@, "Err", error)]
    ELSE LET d == should_retry(retry_config, tasks[n].attempt, ErrorText(error))
         IN /\ node_states' = [node_states EXCEPT
                                 ![n] = AfterAttemptError(@, d.decision, error)]
            /\ IF d.decision = "Retry"
               THEN /\ tasks' = [tasks EXCEPT ![n] = [@ EXCEPT !.pc = "spawn",
                                                               !.cancel_rx = rx,
                                                               !.attempt = d.attempt,
                                                               !.errors = Append(@, error)]]
                    /\ UNCHANGED emitted
               ELSE /\ tasks' = [tasks EXCEPT
                                   ![n] = TaskDone([@ EXCEPT !.attempt = d.attempt],
                                                   "Err", error)]
                    /\ emitted' = emit_event(emitted, "NodeFailed")

\* manager.spawn_agent(config) and, when it succeeds, ns.start(agent_id)
TaskSpawn(n) ==
    /\ tasks[n].pc = "spawn"
    /\ \E spawned \in BOOLEAN :
        IF spawned
        THEN /\ agents' = [agents EXCEPT ![n] = [table |-> "absent", stream |-> "open"]]
             /\ node_states' = [node_states EXCEPT ![n] = ns_start(@)]
             /\ tasks' = [tasks EXCEPT ![n] = [@ EXCEPT !.pc = "insert"]]
             /\ UNCHANGED emitted
        ELSE /\ UNCHANGED agents
             /\ IF mode = "static"
                THEN \* `?` returns AgentSpawnFailed before any state update
                     /\ tasks' = [tasks EXCEPT ![n] = TaskDone(@, "Err", "spawn")]
                     /\ UNCHANGED <<node_states, emitted>>
                ELSE AttemptFailed(n, tasks[n].cancel_rx, "spawn")
    \* enhanced, before the retry loop: the prompt is built from the outputs of
    \* the predecessors (enable_data_flow, a node with predecessors)
    /\ context' = IF /\ mode = "enhanced"
                     /\ context.prompt_view[n] = NotRead
                     /\ get_dependencies(graph, n) # <<>>
                  THEN [context EXCEPT !.prompt_view[n] = context.outputs]
                  ELSE context
    /\ Unchanged_config
    /\ UNCHANGED <<status, run, cancels>>

\* app_state.agents.insert(agent_id, agent_info), then NodeStarted
TaskInsert(n) ==
    /\ tasks[n].pc = "insert"
    /\ agents' = [agents EXCEPT ![n] = [@ EXCEPT !.table = "Running"]]
    /\ emitted' = emit_event(emitted, "NodeStarted")
    /\ tasks' = [tasks EXCEPT ![n] = [@ EXCEPT !.pc = "poll"]]
    /\ Unchanged_config
    /\ UNCHANGED <<status, node_states, run, cancels, context>>

\* One iteration of the polling loop of wait_for_agent_completion
wait_tick(rx, table, timed_out) ==
    LET r == try_recv_is_ok(rx)
    IN IF r.ok THEN [outcome |-> "Err", error |-> "cancelled", kill |-> TRUE, rx |-> r.rx]
       ELSE CASE table = "Completed" ->
                    [outcome |-> "Ok", error |-> "none", kill |-> FALSE, rx |-> r.rx]
              [] table = "Failed" ->
                    [outcome |-> "Err", error |-> "failed", kill |-> FALSE, rx |-> r.rx]
              [] table = "Killed" ->
                    [outcome |-> "Err", error |-> "killed", kill |-> FALSE, rx |-> r.rx]
              [] table = "absent" ->
                    [outcome |-> "Ok", error |-> "none", kill |-> FALSE, rx |-> r.rx]
              [] OTHER ->
                    IF timed_out
                    THEN [outcome |-> "Err", error |-> "timeout", kill |-> FALSE, rx |-> r.rx]
                    ELSE [outcome |-> "Sleep", error |-> "none", kill |-> FALSE, rx |-> r.rx]

\* Ok(output) of the wait: the static wait returns Ok(None); the enhanced one
\* returns AGENT_REGISTRY.get_output, which is None once the registry entry of
\* the agent has been removed (the table entry is removed with it)
get_output(table, in_registry) ==
    IF mode = "static" THEN FALSE
    ELSE IF table = "absent" THEN in_registry ELSE TRUE

\* if let Some(output_text) = &output { context.store_output(..) }
store_output_dropped(outputs, n, output) == outputs

store_output(outputs, n, output) ==
    IF output THEN outputs \cup {n} ELSE outputs

\* A polling tick of the node task and, when the wait returns, the rest of the
\* attempt: ns.complete / ns.fail and the node's events
TaskPoll(n) ==
    /\ tasks[n].pc = "poll"
    /\ \E timed_out \in BOOLEAN, in_registry \in BOOLEAN :
        LET w == wait_tick(tasks[n].cancel_rx, agents[n].table, timed_out)
            output == get_output(agents[n].table, in_registry)
        IN /\ agents' = IF w.kill /\ agents[n].table # "absent"
                        THEN [agents EXCEPT ![n] = [@ EXCEPT !.table = "Killed"]]
                        ELSE agents
           /\ CASE w.outcome = "Ok" ->
                    /\ node_states' = [node_states EXCEPT ![n] = ns_complete(@)]
                    /\ emitted' = emit_event(emitted, "NodeCompleted")
                    /\ tasks' = [tasks EXCEPT ![n] = [TaskDone(@, "Ok", "none")
                                                         EXCEPT !.output = output]]
                    /\ context' = [context EXCEPT
                                     !.outputs = store_output(@, n, output)]
                [] w.outcome = "Err" ->
                    /\ AttemptFailed(n, w.rx, w.error)
                    /\ UNCHANGED context
                [] OTHER ->
                    /\ tasks' = [tasks EXCEPT ![n] = [@ EXCEPT !.cancel_rx = w.rx]]
                    /\ UNCHANGED <<node_states, emitted, context>>
    /\ Unchanged_config
    /\ UNCHANGED <<status, run, cancels>>

-----------------------------------------------------------------------------
(* The agent table and the PTY stream: process/manager.rs, commands/agent.rs,*)
(* api/routes.rs                                                            *)

\* AgentManager::spawn_agent, streaming task at end of stream: the agent's
\* entry, if the table has one, is marked Completed
StreamClosed(n) ==
    /\ tasks[n].pc \in {"insert", "poll"}
    /\ agents[n].stream = "open"
    /\ agents' = [agents EXCEPT ![n] =
                    [stream |-> "closed",
                     table |-> IF @.table = "absent" THEN "absent" ELSE "Completed"]]
    /\ Unchanged_config
    /\ UNCHANGED <<status, node_states, emitted, run, tasks, cancels, context>>

\* kill_agent command: agent.status = AgentStatus::Killed
ExternalKill(n) ==
    /\ tasks[n].pc = "poll"
    /\ agents[n].table \notin {"absent", "Killed"}
    /\ agents' = [agents EXCEPT ![n] = [@ EXCEPT !.table = "Killed"]]
    /\ Unchanged_config
    /\ UNCHANGED <<status, node_states, emitted, run, tasks, cancels, context>>

\* kill_agent command (state.agents.remove) and DELETE /api/agents/:id
ExternalRemove(n) ==
    /\ tasks[n].pc = "poll"
    /\ agents[n].table # "absent"
    /\ agents' = [agents EXCEPT ![n] = [@ EXCEPT !.table = "absent"]]
    /\ Unchanged_config
    /\ UNCHANGED <<status, node_states, emitted, run, tasks, cancels, context>>

-----------------------------------------------------------------------------
(* Executions of a catalogue of workflows *)

Json(nodes, edges) == [nodes |-> nodes, edges |-> edges]

Pair == Json(<<"a", "b">>, << <<"a", "b">> >>)

Chain == Json(<<"a", "b", "c">>, << <<"a", "b">>, <<"b", "c">> >>)

Join == Json(<<"a", "b", "c">>, << <<"a", "c">>, <<"b", "c">> >>)

Diamond == Json(<<"a", "b", "c", "d">>,
                << <<"a", "b">>, <<"a", "c">>, <<"b", "d">>, <<"c", "d">> >>)

Cycle == Json(<<"a", "b", "c">>, << <<"a", "b">>, <<"b", "c">>, <<"c", "a">> >>)

TailCycle == Json(<<"a", "b", "c">>, << <<"a", "b">>, <<"b", "c">>, <<"c", "b">> >>)

StaticWorkflows == {Chain, Join, Diamond, Cycle, TailCycle}

EnhancedWorkflows == {Chain}

ConditionalWorkflows == {Join}

RetryWorkflows == {Pair}

Condition(type, predecessor_id) == [type |-> type, predecessor_id |-> predecessor_id]

AllAlways(json) == [n \in SeqRange(json.nodes) |-> AlwaysCondition]

\* Per-node conditions of an enhanced execution: all Always, or one node that
\* has dependencies with another condition (OnSuccess and OnFailure name one
\* of its dependencies)
NodeConfigs(json) ==
    {AllAlways(json)} \cup
    UNION {{[AllAlways(json) EXCEPT ![n] = Condition(t, p)] :
               t \in {"OnSuccess", "OnFailure"},
               p \in SeqRange(SelectSources(json.edges, n))}
           \cup
           {[AllAlways(json) EXCEPT ![n] = Condition(t, "none")] :
               t \in IF SelectSources(json.edges, n) = <<>> THEN {}
                     ELSE {"Never", "AllPredecessorsSucceeded",
                           "AnyPredecessorSucceeded"}} :
           n \in SeqRange(json.nodes)}

\* FallbackStrategy::FailWorkflow is the default of the execution config
Scenario(json, m, configs, retry) ==
    [graph_json |-> json, mode |-> m, node_configs |-> configs, retry_config |-> retry,
     fallback |-> "FailWorkflow"]

\* An execution config with FallbackStrategy::Skip
WithSkipFallback(scenario) == [scenario EXCEPT !.fallback = "Skip"]

Scenarios ==
    {Scenario(w, "static", AllAlways(w), NoRetryConfig) : w \in StaticWorkflows}
    \cup {Scenario(w, "enhanced", AllAlways(w), NoRetryConfig) : w \in EnhancedWorkflows}
    \cup UNION {{Scenario(w, "enhanced", c, NoRetryConfig) : c \in NodeConfigs(w)} :
                w \in ConditionalWorkflows}
    \cup {WithSkipFallback(Scenario(w, "enhanced", AllAlways(w), QuickRetryConfig)) :
            w \in RetryWorkflows}

Init ==
    /\ \E s \in Scenarios :
        /\ graph_json = s.graph_json
        /\ mode = s.mode
        /\ node_configs = s.node_configs
        /\ retry_config = s.retry_config
        /\ fallback = s.fallback
    /\ InitExecution

Next ==
    \/ Execute
    \/ RunStart
    \/ RunSubscribe
    \/ LevelCheck
    \/ LevelPartition
    \/ \E n \in DOMAIN tasks : Dispatch(n)
    \/ LevelJoin
    \/ Finalize
    \/ \E n \in DOMAIN tasks : TaskSpawn(n)
    \/ \E n \in DOMAIN tasks : TaskInsert(n)
    \/ \E n \in DOMAIN tasks : TaskPoll(n)
    \/ \E n \in DOMAIN tasks : StreamClosed(n)
    \/ \E n \in DOMAIN tasks : ExternalKill(n)
    \/ \E n \in DOMAIN tasks : ExternalRemove(n)
    \/ CancelSend
    \/ CancelSetStatus

Spec == Init /\ [][Next]_vars

-----------------------------------------------------------------------------
(* Calls of should_retry on a RetryState, for a family of configurations     *)

RetryPatternPool == {<<"timeout">>, <<"execution", "failed">>}

NoRetryPatternPool == {<<"authentication", "failed">>, <<"Failed">>}

ErrorTexts ==
    {<<"Timeout">>, <<"Authentication", "failed">>,
     <<"Authentication", "failed", "Timeout">>, <<"Agent", "execution", "failed">>,
     <<"api", "rate", "limit">>}

RetryConfigs ==
    {[max_attempts |-> m, retry_on_timeout |-> t, retry_on_api_error |-> a,
      retry_patterns |-> rp, no_retry_patterns |-> np] :
        m \in 0..MaxAttemptsBound, t \in BOOLEAN, a \in BOOLEAN,
        rp \in SUBSET RetryPatternPool, np \in SUBSET NoRetryPatternPool}

NoExecution ==
    /\ graph_json = Json(<<>>, <<>>)
    /\ mode = "static"
    /\ node_configs = <<>>
    /\ retry_config = NoRetryConfig
    /\ fallback = "FailWorkflow"
    /\ InitCommon

Unchanged_execution ==
    UNCHANGED <<graph_json, mode, node_configs, retry_config, execute_result,
                graph, stored, status, node_states, execution_levels, emitted,
                run, tasks, agents, cancels, context, fallback, observed>>

Unchanged_but_retry ==
    /\ Unchanged_execution
    /\ UNCHANGED <<resources, checkpoints, registry, parsing>>

Unchanged_but_resources ==
    /\ Unchanged_execution
    /\ UNCHANGED <<retry_state, checkpoints, registry, parsing>>

Unchanged_but_checkpoints ==
    /\ Unchanged_execution
    /\ UNCHANGED <<retry_state, resources, registry, parsing>>

Unchanged_but_registry ==
    /\ Unchanged_execution
    /\ UNCHANGED <<retry_state, resources, checkpoints, parsing>>

Unchanged_but_parsing ==
    /\ Unchanged_execution
    /\ UNCHANGED <<retry_state, resources, checkpoints, registry>>

InitRetry ==
    /\ retry_state \in {NewRetryState(c) : c \in RetryConfigs}
    /\ ResourcesIdle
    /\ CheckpointsIdle
    /\ RegistryIdle
    /\ ParsingIdle
    /\ NoExecution

\* retry_state.should_retry(&error)
ShouldRetry ==
    /\ retry_state.current_attempt < MaxCalls
    /\ \E error \in ErrorTexts :
        LET d == should_retry(retry_state.config, retry_state.current_attempt, error)
        IN retry_state' = [retry_state EXCEPT !.current_attempt = d.attempt,
                                               !.error = error,
                                               !.decision = d.decision]
    /\ Unchanged_but_retry

SpecRetry == InitRetry /\ [][ShouldRetry]_vars

-----------------------------------------------------------------------------
(* The task queue of a resource manager                                      *)

MaxQueueSize == 2

QueueConfig == ResourceConfig(1, <<>>, MaxQueueSize, None)

InitQueue ==
    /\ resources = ResourceManager_new(QueueConfig)
    /\ RetryIdle
    /\ CheckpointsIdle
    /\ RegistryIdle
    /\ ParsingIdle
    /\ NoExecution

\* manager.queue_task(QueuedTask { priority, queued_at, .. })
QueueTask ==
    /\ resources.queued < MaxTasks
    /\ \E priority \in TaskPriorities, queued_at \in 0..MaxClock :
        LET task == [id |-> resources.queued + 1, priority |-> priority,
                     queued_at |-> queued_at]
        IN resources' = [queue_task(resources, task) EXCEPT !.queued = @ + 1]
    /\ Unchanged_but_resources

\* manager.dequeue_task()
DequeueTask ==
    /\ IF resources.task_queue = {}
       THEN resources' = dequeue_task(resources, None)
       ELSE \E task \in HeapTop(resources.task_queue) :
                resources' = dequeue_task(resources, Some(task))
    /\ Unchanged_but_resources

NextQueue == QueueTask \/ DequeueTask

SpecQueue == InitQueue /\ [][NextQueue]_vars

-----------------------------------------------------------------------------
(* Concurrent acquire and release calls on a resource manager                *)

MaxPermits == 2

RoleCap == 1

RateLimit == 2

RoleCaps == [r \in {"implementer"} |-> RoleCap]

FullQueue ==
    {[id |-> i, priority |-> Normal, queued_at |-> 0] : i \in 1..MaxQueueSize}

InitResources ==
    /\ \E rate \in {None, Some(RateLimit)}, queue \in {{}, FullQueue} :
        resources = [ResourceManager_new(
                        ResourceConfig(MaxPermits, RoleCaps, MaxQueueSize, rate))
                     EXCEPT !.task_queue = queue]
    /\ RetryIdle
    /\ CheckpointsIdle
    /\ RegistryIdle
    /\ ParsingIdle
    /\ NoExecution

Caller(c, pc, role, result) ==
    [resources.callers EXCEPT ![c] = [pc |-> pc, role |-> role, result |-> result]]

\* acquire, up to the wait on the semaphore: the rate limit and the queue size
AcquireEnter(c) ==
    /\ resources.callers[c].pc = "idle"
    /\ \E role \in Roles, tokens_to_add \in 0..1 :
        LET limiter == try_acquire(resources, tokens_to_add)
        IN IF ~limiter.ok
           THEN resources' = [resources EXCEPT
                                !.tokens = limiter.tokens,
                                !.callers = Caller(c, "idle", role, "RateLimited")]
           ELSE IF Cardinality(resources.task_queue) >= resources.config.max_queue_size
           THEN resources' = [resources EXCEPT
                                !.tokens = limiter.tokens,
                                !.callers = Caller(c, "idle", role, "QueueFull")]
           ELSE resources' = [resources EXCEPT
                                !.tokens = limiter.tokens,
                                !.callers = Caller(c, "semaphore", role, "none")]
    /\ Unchanged_but_resources

\* timeout(acquire_timeout_ms, semaphore.acquire_owned()): a permit, or the
\* timeout while no permit is available
AcquirePermit(c) ==
    /\ resources.callers[c].pc = "semaphore"
    /\ LET role == resources.callers[c].role
       IN IF resources.permits > 0
          THEN resources' = [resources EXCEPT
                               !.permits = @ - 1,
                               !.held[c] = Some(resources.semaphore),
                               !.callers = Caller(c, "role_check", role, "none")]
          ELSE resources' = [resources EXCEPT
                               !.callers = Caller(c, "idle", role, "Timeout")]
    /\ Unchanged_but_resources

\* The role-specific limit, under the lock of active_per_role
AcquireRoleCheck(c) ==
    /\ resources.callers[c].pc = "role_check"
    /\ LET role == resources.callers[c].role
           caps == resources.config.max_agents_per_role
       IN IF role \in DOMAIN caps
          THEN IF role_limit_reached(resources.active_per_role[role], caps[role])
               THEN resources' = [drop_permit(resources, c) EXCEPT
                        !.callers = Caller(c, "idle", role, "RoleLimitExceeded")]
               ELSE resources' = [resources EXCEPT
                        !.active_per_role[role] = @ + 1,
                        !.callers = Caller(c, "count", role, "none")]
          ELSE resources' = [resources EXCEPT
                        !.callers = Caller(c, "count", role, "none")]
    /\ Unchanged_but_resources

\* active_agents.fetch_add(1) and Ok(ResourcePermit)
AcquireCount(c) ==
    /\ resources.callers[c].pc = "count"
    /\ resources' = [resources EXCEPT
                        !.active_agents = @ + 1,
                        !.callers = Caller(c, "holding", resources.callers[c].role, "Ok")]
    /\ Unchanged_but_resources

\* release, first block: the per-role count, under its lock
ReleaseRole(c) ==
    /\ resources.callers[c].pc = "holding"
    /\ LET role == resources.callers[c].role
       IN resources' = [resources EXCEPT
            !.active_per_role[role] =
                IF role \in DOMAIN resources.config.max_agents_per_role /\ @ > 0
                THEN @ - 1 ELSE @,
            !.callers = Caller(c, "releasing", role, "Ok")]
    /\ Unchanged_but_resources

\* release, rest: active_agents.fetch_sub(1), then the permit is dropped.
\* The fetch_add of the permit's own acquire precedes, so the counter is >= 1.
ReleaseCount(c) ==
    /\ resources.callers[c].pc = "releasing"
    /\ resources' = [drop_permit(resources, c) EXCEPT
                        !.active_agents = @ - 1,
                        !.callers = Caller(c, "idle", resources.callers[c].role, "none")]
    /\ Unchanged_but_resources

NextResources ==
    \E c \in Callers :
        \/ AcquireEnter(c)
        \/ AcquirePermit(c)
        \/ AcquireRoleCheck(c)
        \/ AcquireCount(c)
        \/ ReleaseRole(c)
        \/ ReleaseCount(c)

SpecResources == InitResources /\ [][NextResources]_vars

-----------------------------------------------------------------------------
(* Permits that are dropped without release, and update_config              *)

MaxUpdates == 1

MaxDrops == 1

\* A ResourcePermit goes out of scope without a call of release: only its
\* OwnedSemaphorePermit has a destructor
DropPermit(c) ==
    /\ resources.callers[c].pc = "holding"
    /\ resources.dropped < MaxDrops
    /\ resources' = [drop_permit(resources, c) EXCEPT
                        !.dropped = @ + 1,
                        !.callers = Caller(c, "idle", resources.callers[c].role, "none")]
    /\ Unchanged_but_resources

\* ResourceManager::update_config(&mut self, config): no acquire or release
\* is in progress, permits may be out
UpdateConfig ==
    /\ resources.semaphore < MaxUpdates
    /\ \A c \in Callers : resources.callers[c].pc \in {"idle", "holding"}
    /\ \E max_agents \in 1..MaxPermits, rate \in {None, Some(RateLimit)} :
        LET changed == max_agents # resources.config.max_concurrent_agents
        IN resources' = [resources EXCEPT
                !.semaphore = IF changed THEN @ + 1 ELSE @,
                !.permits = IF changed THEN max_agents ELSE @,
                !.tokens = max_tokens(rate),
                !.config = [@ EXCEPT !.max_concurrent_agents = max_agents,
                                     !.rate_limit_per_minute = rate]]
    /\ Unchanged_but_resources

NextPermits ==
    \/ NextResources
    \/ \E c \in Callers : DropPermit(c)
    \/ UpdateConfig

SpecPermits == InitResources /\ [][NextPermits]_vars

-----------------------------------------------------------------------------
(* Concurrent calls of RateLimiter::try_acquire, one atomic access a step    *)

MaxLimiterCalls == 3

InitLimiter ==
    /\ resources = ResourceManager_new(
                      ResourceConfig(MaxPermits, RoleCaps, MaxQueueSize, Some(RateLimit)))
    /\ RetryIdle
    /\ CheckpointsIdle
    /\ RegistryIdle
    /\ ParsingIdle
    /\ NoExecution

Thread(c, pc, current, tokens_to_add, result) ==
    [resources.limiter.threads EXCEPT
        ![c] = [pc |-> pc, current |-> current, tokens_to_add |-> tokens_to_add,
                result |-> result]]

\* try_acquire is entered by an enabled limiter: self.refill() is called
LimiterEnter(c) ==
    /\ resources.limiter.threads[c].pc = "idle"
    /\ resources.limiter.calls < MaxLimiterCalls
    /\ resources' = [resources EXCEPT
                        !.limiter.calls = @ + 1,
                        !.limiter.threads = Thread(c, "lock", 0, 0, "none")]
    /\ Unchanged_but_resources

\* refill: last_refill.lock(), the elapsed time and tokens_to_add; less than a
\* tenth of a minute elapsed: the guard is dropped and refill returns
RefillLock(c) ==
    /\ resources.limiter.threads[c].pc = "lock"
    /\ resources.limiter.last_refill = None
    /\ \E refill \in BOOLEAN, tokens_to_add \in 0..max_tokens(resources.config.rate_limit_per_minute) :
        IF refill
        THEN resources' = [resources EXCEPT
                !.limiter.last_refill = Some(c),
                !.limiter.threads = Thread(c, "refill_load", 0, tokens_to_add, "none")]
        ELSE /\ tokens_to_add = 0
             /\ resources' = [resources EXCEPT
                    !.limiter.threads = Thread(c, "take", 0, 0, "none")]
    /\ Unchanged_but_resources

\* refill: let current = self.tokens.load(Relaxed)
RefillLoad(c) ==
    /\ resources.limiter.threads[c].pc = "refill_load"
    /\ resources' = [resources EXCEPT
            !.limiter.threads = Thread(c, "refill_store", resources.tokens,
                                       resources.limiter.threads[c].tokens_to_add, "none")]
    /\ Unchanged_but_resources

\* refill: self.tokens.store((current + tokens_to_add).min(max_tokens)), the
\* write of last_refill and the drop of the guard
RefillStore(c) ==
    /\ resources.limiter.threads[c].pc = "refill_store"
    /\ LET t == resources.limiter.threads[c]
           max == max_tokens(resources.config.rate_limit_per_minute)
           sum == t.current + t.tokens_to_add
           new_tokens == IF sum > max THEN max ELSE sum
       IN resources' = [resources EXCEPT
                !.tokens = new_tokens,
                !.limiter.added = @ + (new_tokens - t.current),
                !.limiter.last_refill = None,
                !.limiter.threads = Thread(c, "take", 0, 0, "none")]
    /\ Unchanged_but_resources

\* The loop of try_acquire: let current = self.tokens.load(Relaxed), and
\* return false when it is 0
TakeLoad(c) ==
    /\ resources.limiter.threads[c].pc = "take"
    /\ resources' = [resources EXCEPT
            !.limiter.threads =
                IF resources.tokens = 0 THEN Thread(c, "idle", 0, 0, "false")
                ELSE Thread(c, "compare_exchange", resources.tokens, 0, "none")]
    /\ Unchanged_but_resources

\* The loop of try_acquire: compare_exchange(current, current - 1), return
\* true when it succeeded, the next iteration otherwise
TakeCompareExchange(c) ==
    /\ resources.limiter.threads[c].pc = "compare_exchange"
    /\ LET current == resources.limiter.threads[c].current
       IN IF resources.tokens = current
          THEN resources' = [resources EXCEPT
                    !.tokens = current - 1,
                    !.limiter.acquired = @ + 1,
                    !.limiter.threads = Thread(c, "idle", 0, 0, "true")]
          ELSE resources' = [resources EXCEPT
                    !.limiter.threads = Thread(c, "take", 0, 0, "none")]
    /\ Unchanged_but_resources

NextLimiter ==
    \E c \in Callers :
        \/ LimiterEnter(c)
        \/ RefillLock(c)
        \/ RefillLoad(c)
        \/ RefillStore(c)
        \/ TakeLoad(c)
        \/ TakeCompareExchange(c)

SpecLimiter == InitLimiter /\ [][NextLimiter]_vars

-----------------------------------------------------------------------------
(* Checkpoints taken after a level, and loads from the checkpoint directory  *)

\* What a checkpoint is taken of: the execution state and its context
ExecutionSnapshots ==
    {[execution_id |-> e, status |-> "Running", node_states |-> ns,
      execution_levels |-> << <<"a">> >>, variables |-> v, outputs |-> o,
      current_level |-> 0] :
        e \in ExecutionIds,
        ns \in {[a |-> ns_start(NewNodeState)],
                 [a |-> ns_complete(ns_start(NewNodeState))]},
        v \in {<<>>, [plan |-> "v1"]},
        o \in {<<>>, [a |-> <<"output of a">>]}}

\* An execution's context holds an output of a node only once it completed
SnapshotsOfExecutions ==
    {e \in ExecutionSnapshots :
        e.outputs # <<>> => e.node_states["a"].status = "Completed"}

InitCheckpoints ==
    /\ checkpoints = NoCheckpoints
    /\ RetryIdle
    /\ ResourcesIdle
    /\ RegistryIdle
    /\ ParsingIdle
    /\ NoExecution

\* run_enhanced_execution, CheckpointTrigger::AfterLevel:
\* create_checkpoint(&state, &context, level_idx) and manager.save(&checkpoint)
CheckpointAfterLevel ==
    /\ Len(checkpoints.saved) < MaxSaves
    /\ \E state \in SnapshotsOfExecutions, tick \in 0..1 :
        /\ checkpoints.now + tick <= MaxTime
        /\ LET now == checkpoints.now + tick
               id == CheckpointIdPool[Len(checkpoints.saved) + 1]
               checkpoint == create_checkpoint(state, id, now)
           IN checkpoints' = [checkpoints EXCEPT
                                !.now = now,
                                !.dir = save(@, checkpoint),
                                !.saved = Append(@, [checkpoint |-> checkpoint,
                                                     state |-> state])]
    /\ Unchanged_but_checkpoints

\* manager.load(&checkpoint_id): the first matching entry of read_dir
Load ==
    /\ \E k \in 1..Len(checkpoints.saved) :
        LET id == checkpoints.saved[k].checkpoint.id
            matches == load_matches(checkpoints.dir, id)
        IN IF matches = {}
           THEN checkpoints' = [checkpoints EXCEPT
                    !.loaded = [op |-> "load", arg |-> id, result |-> None]]
           ELSE \E f \in matches :
                checkpoints' = [checkpoints EXCEPT
                    !.loaded = [op |-> "load", arg |-> id,
                                result |-> Some(from_str(checkpoints.dir[f]))]]
    /\ Unchanged_but_checkpoints

\* manager.load_latest(&execution_id)
LoadLatest ==
    /\ \E e \in ExecutionIds :
        LET first == load_latest_first(load_latest_candidates(checkpoints.dir, e))
        IN IF first = {}
           THEN checkpoints' = [checkpoints EXCEPT
                    !.loaded = [op |-> "load_latest", arg |-> e, result |-> None]]
           ELSE \E c \in first :
                checkpoints' = [checkpoints EXCEPT
                    !.loaded = [op |-> "load_latest", arg |-> e,
                                result |-> Some(from_str(checkpoints.dir[c[1]]))]]
    /\ Unchanged_but_checkpoints

NextCheckpoints == CheckpointAfterLevel \/ Load \/ LoadLatest

SpecCheckpoints == InitCheckpoints /\ [][NextCheckpoints]_vars

-----------------------------------------------------------------------------
(* Agents spawned, killed and cleaned up through the registry and the       *)
(* agent commands                                                           *)

\* What the system calls of an operation meet: no failure, a failing try_wait,
\* a failing kill
RegistryIo == {"ok", "wait_err", "kill_err"}

BoolText(b) == IF b THEN "true" ELSE "false"

InitRegistry ==
    /\ registry = NoRegistry
    /\ RetryIdle
    /\ ResourcesIdle
    /\ CheckpointsIdle
    /\ ParsingIdle
    /\ NoExecution

\* spawn_agent command: AgentManager::spawn_agent registers the PTY agent,
\* then state.agents.insert
SpawnAgent(id) ==
    /\ registry.os[id] = "none"
    /\ registry' = [registry EXCEPT !.processes[id] = Some(PtyProcess),
                                    !.start_times[id] = Some(registry.now),
                                    !.agents[id] = "Running",
                                    !.os[id] = "running",
                                    !.streams[id] = "open"]
    /\ Unchanged_but_registry

\* AgentRegistry::register of a spawned child process
Register(id) ==
    /\ registry.os[id] = "none"
    /\ registry' = [registry EXCEPT !.processes[id] = Some(ChildProcess),
                                    !.start_times[id] = Some(registry.now),
                                    !.os[id] = "running"]
    /\ Unchanged_but_registry

\* The process of an agent exits by itself
ProcessExits(id) ==
    /\ registry.os[id] = "running"
    /\ registry' = [registry EXCEPT !.os[id] = "exited"]
    /\ Unchanged_but_registry

\* Time passes: every start time is one tick older
Tick ==
    /\ registry.now < MaxRegistryClock
    /\ registry' = [registry EXCEPT !.now = @ + 1]
    /\ Unchanged_but_registry

\* AgentRegistry::kill: kill_graceful with the grace period of two seconds
Kill(id) ==
    /\ Len(registry.calls) < MaxRegistryCalls
    /\ \E exits_on_term \in BOOLEAN, io \in RegistryIo :
        LET k == kill_graceful(registry.processes[id], registry.os[id],
                               exits_on_term, io)
            after == [registry EXCEPT !.os[id] = k.os]
        IN registry' = [after EXCEPT !.calls =
                Append(@, Call("kill_graceful", id, io, BoolText(k.result), k.signals,
                               k.at_deadline, 0, {}, registry, after))]
    /\ Unchanged_but_registry

\* kill_agent command of commands/agent.rs
KillAgent(id) ==
    /\ Len(registry.calls) < MaxRegistryCalls
    /\ \E exits_on_term \in BOOLEAN, io \in RegistryIo :
        LET k == kill_graceful(registry.processes[id], registry.os[id],
                               exits_on_term, io)
            in_table == registry.agents[id] # "absent"
            after == [registry EXCEPT
                        !.os[id] = k.os,
                        !.agents[id] = IF ~in_table \/ ~k.result THEN "absent"
                                       ELSE "Killed"]
            result == IF k.result \/ in_table THEN "Ok" ELSE "Err: Agent not found"
        IN registry' = [after EXCEPT !.calls =
                Append(@, Call("kill_agent", id, io, result, k.signals, k.at_deadline,
                               0, {}, registry, after))]
    /\ Unchanged_but_registry

\* DELETE /api/agents/:id of api/routes.rs
KillAgentRoute(id) ==
    /\ Len(registry.calls) < MaxRegistryCalls
    /\ LET in_table == registry.agents[id] # "absent"
           after == IF in_table
                    THEN [registry EXCEPT
                            !.agents[id] = "absent",
                            !.os[id] = IF @ = "running" THEN "exited" ELSE @]
                    ELSE registry
           result == IF in_table THEN "success" ELSE "NOT_FOUND"
           signals == IF in_table THEN <<"SIGKILL">> ELSE <<>>
       IN registry' = [after EXCEPT !.calls =
                Append(@, Call("kill_agent_route", id, "ok", result, signals, after.os[id],
                               0, {}, registry, after))]
    /\ Unchanged_but_registry

\* AgentRegistry::cleanup_old_agents(max_age)
CleanupOldAgents ==
    /\ Len(registry.calls) < MaxRegistryCalls
    /\ \E max_age \in 0..MaxAge, io \in {"ok", "wait_err"}, success \in BOOLEAN :
        LET removed == to_remove(registry, max_age, io, success)
            after == remove(registry, removed)
        IN registry' = [after EXCEPT !.calls =
                Append(@, Call("cleanup_old_agents", "none", io, "removed", <<>>, "none",
                               max_age, removed, registry, after))]
    /\ Unchanged_but_registry

NextRegistry ==
    \/ \E id \in AgentIds : SpawnAgent(id)
    \/ \E id \in AgentIds : Register(id)
    \/ \E id \in AgentIds : ProcessExits(id)
    \/ Tick
    \/ \E id \in AgentIds : Kill(id)
    \/ \E id \in AgentIds : KillAgent(id)
    \/ \E id \in AgentIds : KillAgentRoute(id)
    \/ CleanupOldAgents

SpecRegistry == InitRegistry /\ [][NextRegistry]_vars

-----------------------------------------------------------------------------
(* Completion subscriptions: subscribe_completion, notify_completion         *)
(* (registry.rs), the end of the PTY stream (manager.rs) and the wait of the *)
(* planner (orchestrator.rs wait_for_agent_output)                          *)

MaxSubscriptions == 2

\* wait_for_agent_output(agent_id), first statement, for a spawned agent
SubscribeCompletion(id) ==
    /\ registry.streams[id] # "none"
    /\ Len(registry.receivers) < MaxSubscriptions
    /\ registry' = subscribe_completion(registry, id)
    /\ Unchanged_but_registry

\* The streaming task of AgentManager::spawn_agent after the last chunk: the
\* status write when the table has the agent, then notify_completion
StreamEnds(id) ==
    /\ registry.streams[id] = "open"
    /\ registry' = notify_completion(
                      [registry EXCEPT !.streams[id] = "closed",
                                       !.os[id] = "exited",
                                       !.agents[id] = IF @ = "absent" THEN @
                                                      ELSE "Completed"], id)
    /\ Unchanged_but_registry

\* restart_agent command: kill, state.agents.remove, AGENT_REGISTRY.remove and
\* the spawn of a new agent with the stored config (which may fail)
RestartAgent(id) ==
    /\ registry.processes[id] # None
    /\ \E exits_on_term \in BOOLEAN, new \in {a \in AgentIds : registry.os[a] = "none"} \cup {"none"} :
        LET k == kill_graceful(registry.processes[id], registry.os[id], exits_on_term, "ok")
            removed == remove([registry EXCEPT !.os[id] = k.os,
                                               !.agents[id] = "absent"], {id})
        IN registry' = IF new = "none" THEN removed
                       ELSE [removed EXCEPT !.processes[new] = Some(PtyProcess),
                                            !.start_times[new] = Some(registry.now),
                                            !.agents[new] = "Running",
                                            !.os[new] = "running",
                                            !.streams[new] = "open"]
    /\ Unchanged_but_registry

NextCompletions ==
    \/ \E id \in AgentIds : SpawnAgent(id)
    \/ \E id \in AgentIds : SubscribeCompletion(id)
    \/ \E id \in AgentIds : StreamEnds(id)
    \/ \E id \in AgentIds : RestartAgent(id)

\* The streaming task of an agent runs whenever its stream has ended; commands
\* are issued or not
SpecCompletions ==
    InitRegistry /\ [][NextCompletions]_vars /\ \A id \in AgentIds : WF_vars(StreamEnds(id))

-----------------------------------------------------------------------------
(* Descriptions and plans whose nodes carry labels, duplicates included     *)

ParseIds == {"a", "b"}

ParseLabels == {"x", "y"}

\* Endpoints of edges and dependencies: the IDs and one that no node has
ParseEndpoints == ParseIds \cup {"c"}

Descriptions ==
    {[kind |-> "json", nodes |-> ns, edges |-> es, result |-> NoParse] :
        ns \in SeqsUpTo([id : ParseIds, label : ParseLabels, depends_on : {<<>>}],
                        MaxParseNodes),
        es \in SeqsUpTo(ParseEndpoints \X ParseEndpoints, MaxParseEdges)}

Plans ==
    {[kind |-> "plan", nodes |-> ns, edges |-> <<>>, result |-> NoParse] :
        ns \in SeqsUpTo([id : ParseIds, label : ParseLabels,
                         depends_on : SeqsUpTo(ParseEndpoints, MaxParseEdges)],
                        MaxParseNodes)}

InitParsing ==
    /\ parsing \in Descriptions \cup Plans
    /\ RetryIdle
    /\ ResourcesIdle
    /\ CheckpointsIdle
    /\ RegistryIdle
    /\ NoExecution

\* WorkflowGraph::from_json on a description
FromJson ==
    /\ parsing.kind = "json"
    /\ parsing.result = NoParse
    /\ parsing' = [parsing EXCEPT !.result =
                      [op |-> "from_json"] @@ from_json_nodes(parsing.nodes, parsing.edges)]
    /\ Unchanged_but_parsing

\* plan_to_graph on the tasks of a plan
PlanToGraph ==
    /\ parsing.kind = "plan"
    /\ parsing.result = NoParse
    /\ parsing' = [parsing EXCEPT !.result =
                      [op |-> "plan_to_graph"] @@ plan_to_graph(parsing.nodes)]
    /\ Unchanged_but_parsing

NextParsing == FromJson \/ PlanToGraph

SpecParsing == InitParsing /\ [][NextParsing]_vars

-----------------------------------------------------------------------------
(* Planner-driven executions: execute_orchestrated and                      *)
(* run_orchestrated_execution (executor.rs)                                 *)

PlannedTask(id, label, depends_on) == [id |-> id, label |-> label, depends_on |-> depends_on]

SinglePlan == <<PlannedTask("a", "x", <<>>)>>

PairPlan == <<PlannedTask("a", "x", <<>>), PlannedTask("b", "y", <<"a">>)>>

CyclePlan == <<PlannedTask("a", "x", <<"b">>), PlannedTask("b", "y", <<"a">>)>>

\* The plans the planner may answer with
PlanCatalogue == {SinglePlan, PairPlan, CyclePlan}

\* The WorkflowGraph plan_to_graph returns
plan_graph(plan_tasks) ==
    LET built == plan_to_graph(plan_tasks)
    IN [nodes |-> DOMAIN built.nodes,
        edges |-> built.edges,
        successors |-> [n \in DOMAIN built.nodes |-> SelectTargets(built.edges, n)],
        predecessors |-> [n \in DOMAIN built.nodes |-> SelectSources(built.edges, n)]]

\* progress_percent of the ProgressUpdate emitted once the plan is stored
plan_progress(g) == 100 \div (Cardinality(g.nodes) + 1)

InitOrchestrated ==
    /\ NoExecution
    /\ RetryIdle
    /\ ResourcesIdle
    /\ CheckpointsIdle
    /\ RegistryIdle
    /\ ParsingIdle

\* WorkflowExecutor::execute_orchestrated: ExecutionStarted, the spawn of
\* run_orchestrated_execution, Ok(execution_id)
ExecuteOrchestrated ==
    /\ execute_result = "none"
    /\ execute_result' = "Ok"
    /\ emitted' = emit_event(emitted, "ExecutionStarted")
    /\ run' = [NoRun EXCEPT !.pc = "planning"]
    /\ UNCHANGED <<graph_json, mode, node_configs, retry_config, graph, stored,
                   status, node_states, execution_levels, tasks, agents, cancels,
                   context, fallback, side_vars, observed>>

\* run_orchestrated_execution, planning returned Err: NodeFailed of the
\* orchestrator, ExecutionFailed, return
PlanningFailed ==
    /\ run.pc = "planning"
    /\ emitted' = emit_event(emit_event(emitted, "NodeFailed"), "ExecutionFailed")
    /\ run' = [run EXCEPT !.pc = "done"]
    /\ UNCHANGED <<graph_json, mode, node_configs, retry_config, execute_result,
                   graph, stored, status, node_states, execution_levels, tasks,
                   agents, cancels, context, fallback, side_vars, observed>>

\* run_orchestrated_execution, planning returned a plan: NodeCompleted of the
\* orchestrator, plan_to_graph, the levels, store.insert and ProgressUpdate
PlanningDone ==
    /\ run.pc = "planning"
    /\ \E plan \in PlanCatalogue :
        LET g == plan_graph(plan)
            lv == compute_execution_levels(g)
            completed == emit_event(emitted, "NodeCompleted")
        IN /\ graph' = g
           /\ IF ~lv.ok
              THEN /\ emitted' = emit_event(completed, "ExecutionFailed")
                   /\ run' = [run EXCEPT !.pc = "done"]
                   /\ UNCHANGED <<stored, status, node_states, execution_levels,
                                  tasks, agents, context, observed>>
              ELSE /\ execution_levels' = lv.levels
                   /\ node_states' = NewNodeStates(lv.levels)
                   /\ status' = "Pending"
                   /\ stored' = TRUE
                   /\ emitted' = emit_event(completed, "ProgressUpdate")
                   /\ observed' = [observed EXCEPT
                                     !.progress_updates = Append(@, plan_progress(g))]
                   /\ run' = [NoRun EXCEPT !.pc = "start",
                                           !.node_statuses = [n \in g.nodes |-> "none"]]
                   /\ tasks' = [n \in g.nodes |-> NoTask]
                   /\ agents' = [n \in g.nodes |-> NoAgent]
                   /\ context' = NewContext(g.nodes)
    /\ UNCHANGED <<graph_json, mode, node_configs, retry_config, execute_result,
                   cancels, fallback, side_vars>>

NextOrchestrated ==
    \/ ExecuteOrchestrated
    \/ PlanningFailed
    \/ PlanningDone
    \/ RunStart
    \/ RunSubscribe
    \/ LevelCheck
    \/ LevelPartition
    \/ \E n \in DOMAIN tasks : Dispatch(n)
    \/ LevelJoin
    \/ Finalize
    \/ \E n \in DOMAIN tasks : TaskSpawn(n)
    \/ \E n \in DOMAIN tasks : TaskInsert(n)
    \/ \E n \in DOMAIN tasks : TaskPoll(n)
    \/ \E n \in DOMAIN tasks : StreamClosed(n)
    \/ \E n \in DOMAIN tasks : ExternalKill(n)
    \/ \E n \in DOMAIN tasks : ExternalRemove(n)
    \/ CancelSend
    \/ CancelSetStatus

SpecOrchestrated == InitOrchestrated /\ [][NextOrchestrated]_vars

-----------------------------------------------------------------------------
(* The cancel command of commands/workflow.rs and the two global executors  *)

\* EXECUTOR: the store of the WorkflowExecutor, filled by execute
EXECUTOR_store == IF stored /\ mode = "static" THEN {"execution"} ELSE {}

\* ENHANCED_EXECUTOR: the store of the EnhancedWorkflowExecutor, filled by
\* execute_enhanced
ENHANCED_EXECUTOR_store == IF stored /\ mode = "enhanced" THEN {"execution"} ELSE {}

\* WorkflowExecutor::cancel: self.store.get(execution_id)
executor_cancel(id) == id \in EXECUTOR_store

CommandWorkflows ==
    {Scenario(Pair, m, AllAlways(Pair), NoRetryConfig) : m \in {"static", "enhanced"}}

InitCommands ==
    /\ \E s \in CommandWorkflows :
        /\ graph_json = s.graph_json
        /\ mode = s.mode
        /\ node_configs = s.node_configs
        /\ retry_config = s.retry_config
        /\ fallback = s.fallback
    /\ InitExecution

\* cancel_workflow_execution with the ID the submit command returned:
\* get_executor(&app), executor.cancel(&uuid), the first statement of
\* WorkflowExecutionState::cancel when the ID was found, Ok(cancelled)
CancelWorkflowExecution ==
    /\ execute_result = "Ok"
    /\ cancels.command = "none"
    /\ IF executor_cancel("execution")
       THEN /\ run' = [run EXCEPT !.cancel_rx = broadcast_send(@)]
            /\ tasks' = [n \in DOMAIN tasks |->
                            [tasks[n] EXCEPT !.cancel_rx = broadcast_send(@)]]
            /\ cancels' = [cancels EXCEPT !.started = @ + 1, !.sending = @ + 1,
                                          !.command = "true",
                                          !.command_running = status = "Running"]
            /\ observed' = IF in_flight
                           THEN [observed EXCEPT
                                    !.cancelled_in_flight = @ \cup {run.level_idx}]
                           ELSE observed
       ELSE /\ cancels' = [cancels EXCEPT !.command = "false",
                                          !.command_running = status = "Running"]
            /\ UNCHANGED <<run, tasks, observed>>
    /\ UNCHANGED <<graph_json, mode, node_configs, retry_config, execute_result,
                   graph, stored, status, node_states, execution_levels, emitted,
                   agents, context, fallback, side_vars>>

NextCommands ==
    \/ Execute
    \/ RunStart
    \/ RunSubscribe
    \/ LevelCheck
    \/ LevelPartition
    \/ \E n \in DOMAIN tasks : Dispatch(n)
    \/ LevelJoin
    \/ Finalize
    \/ \E n \in DOMAIN tasks : TaskSpawn(n)
    \/ \E n \in DOMAIN tasks : TaskInsert(n)
    \/ \E n \in DOMAIN tasks : TaskPoll(n)
    \/ \E n \in DOMAIN tasks : StreamClosed(n)
    \/ \E n \in DOMAIN tasks : ExternalKill(n)
    \/ \E n \in DOMAIN tasks : ExternalRemove(n)
    \/ CancelWorkflowExecution
    \/ CancelSetStatus

SpecCommands == InitCommands /\ [][NextCommands]_vars

-----------------------------------------------------------------------------
(* Properties of the level computation, checked under SpecGraph *)

EdgeSet(g) == {<<g.edges[i][1], g.edges[i][2]>> : i \in DOMAIN g.edges}

RECURSIVE Closure(_, _)
Closure(nodes, R) ==
    LET R2 == R \cup {p \in nodes \X nodes :
                        \E y \in nodes : <<p[1], y>> \in R /\ <<y, p[2]>> \in R}
    IN IF R2 = R THEN R ELSE Closure(nodes, R2)

Reaches(g) == Closure(g.nodes, EdgeSet(g))

IsAcyclic(g) == \A n \in g.nodes : <<n, n>> \notin Reaches(g)

Occurrences(levels, n) ==
    {p \in (DOMAIN levels) \X (1..Cardinality(DOMAIN NodePool)) :
        p[2] \in DOMAIN levels[p[1]] /\ levels[p[1]][p[2]] = n}

LevelIndex(levels, n) ==
    CHOOSE i \in DOMAIN levels : n \in SeqRange(levels[i])

Stratified(g, levels) ==
    /\ \A n \in g.nodes : Cardinality(Occurrences(levels, n)) = 1
    /\ \A i \in DOMAIN levels : SeqRange(levels[i]) \subseteq g.nodes
    /\ \A e \in EdgeSet(g) : LevelIndex(levels, e[1]) < LevelIndex(levels, e[2])

\* C1: for every acyclic workflow graph, compute_execution_levels returns Ok
\* with levels in which every node occurs exactly once and every edge u -> v
\* has the level index of u strictly below that of v; execute stores exactly
\* these levels.
C1_LevelsStratified ==
    LET parsed == from_json(graph_json)
    IN (parsed.ok /\ IsAcyclic(parsed.graph)) =>
         LET r == compute_execution_levels(parsed.graph)
         IN /\ r.ok
            /\ Stratified(parsed.graph, r.levels)
            /\ execute_result = "Ok" => execution_levels = r.levels
            /\ (execute_result # "none" /\ parsed.graph.nodes # {}) =>
                   execute_result = "Ok"

C1_Witness ==
    /\ execute_result = "Ok"
    /\ IsAcyclic(graph)
    /\ Len(execution_levels) >= 2
    /\ Len(graph.edges) >= 2
    /\ \E i \in DOMAIN execution_levels : Len(execution_levels[i]) >= 2

HasCycle(g) == g.nodes # {} /\ ~IsAcyclic(g)

\* C2: when the workflow graph contains a cycle, execute returns CycleDetected
\* without creating an execution record, emitting an event or creating any
\* node state, so no node can leave Pending.
C2_CycleRejected ==
    LET parsed == from_json(graph_json)
    IN (execute_result # "none" /\ parsed.ok /\ HasCycle(parsed.graph)) =>
         /\ execute_result = "CycleDetected"
         /\ ~stored
         /\ emitted = NoEvents
         /\ node_states = <<>>
         /\ run = NoRun
         /\ tasks = <<>>

C2_Witness ==
    /\ execute_result = "CycleDetected"
    /\ HasCycle(graph)
    /\ \E n \in graph.nodes : <<n, n>> \notin Reaches(graph)

-----------------------------------------------------------------------------
(* Properties of executions, checked under Spec *)

TerminalEvents ==
    emitted["ExecutionCompleted"] + emitted["ExecutionFailed"]
        + emitted["ExecutionCancelled"]

\* A step of the executor task or of one of its node tasks
ExecutorStep ==
    \/ RunStart \/ RunSubscribe \/ LevelCheck \/ LevelPartition \/ LevelJoin
    \/ Finalize
    \/ \E n \in DOMAIN tasks :
          Dispatch(n) \/ TaskSpawn(n) \/ TaskInsert(n) \/ TaskPoll(n)

\* C3: every execution emits exactly one terminal event over its lifetime:
\* never more than one, none while the executor task is still running (and
\* then the executor or one of its node tasks can take a step), and one once
\* the executor task has returned, under every interleaving of cancel calls,
\* completions and failures.
C3_OneTerminalEvent ==
    /\ TerminalEvents <= 1
    /\ stored => ((run.pc = "done") <=> (TerminalEvents = 1))
    /\ (stored /\ run.pc # "done") => ENABLED ExecutorStep

C3_Witness ==
    /\ run.pc = "done"
    /\ emitted["ExecutionCancelled"] = 1
    /\ cancels.returned = MaxCancels
    /\ \E n \in DOMAIN node_states : node_states[n].status = "Completed"
    /\ \E n \in DOMAIN node_states : node_states[n].status = "Failed"

\* C4: when cancel is called while the execution is running, the execution
\* ends with status Cancelled and its terminal event is ExecutionCancelled,
\* not ExecutionCompleted or ExecutionFailed.
C4_CancelWhileRunningEndsCancelled ==
    (run.pc = "done" /\ cancels.while_running /\ cancels.sending = 0) =>
        /\ status = "Cancelled"
        /\ emitted["ExecutionCancelled"] = 1
        /\ emitted["ExecutionCompleted"] = 0
        /\ emitted["ExecutionFailed"] = 0

\* C5: after a cancel call has returned, no node goes from Pending to Running.
C5_NoStartAfterCancel ==
    [][cancels.returned > 0 =>
          \A n \in DOMAIN node_states :
              ~(node_states[n].status = "Pending"
                /\ node_states'[n].status = "Running")]_vars

\* C6: a node task awaiting its agent that has an unreceived cancel signal
\* observes it at its next polling tick: the tick ends the task with the
\* Cancelled error and the agent is killed.
C6_ObservedAtNextTick ==
    [][\A n \in DOMAIN tasks :
          (/\ tasks[n].pc = "poll"
           /\ tasks[n].cancel_rx >= 1
           /\ cancels' = cancels
           /\ tasks'[n] # tasks[n]) =>
              /\ tasks'[n].pc = "done"
              /\ tasks'[n].error = "cancelled"
              /\ agents'[n].table \in {"Killed", "absent"}]_vars

NodeTransitions ==
    {<<"Pending", "Running">>, <<"Running", "Completed">>, <<"Running", "Failed">>,
     <<"Pending", "Skipped">>}

StatusStepsWithin(allowed) ==
    \A n \in DOMAIN node_states :
        \/ node_states'[n].status = node_states[n].status
        \/ <<node_states[n].status, node_states'[n].status>> \in allowed

\* C7 as stated: the statuses of a node form a prefix of Pending -> Running ->
\* (Completed | Failed) or of Pending -> Skipped.
C7_Original == [][StatusStepsWithin(NodeTransitions)]_vars

\* C7, amended: the statuses of a node form a prefix of Pending -> Running ->
\* (Completed | Failed), of Pending -> Skipped, or of Pending -> Failed (the
\* agent of an enhanced node could not be spawned); a node never moves
\* backwards or leaves a terminal status.
C7_MonotoneStatus ==
    [][StatusStepsWithin(NodeTransitions \cup {<<"Pending", "Failed">>})]_vars

C7_Witness ==
    \E n \in DOMAIN node_states :
        /\ node_states[n].status = "Failed"
        /\ ~node_states[n].started
        /\ tasks[n].attempt = QuickMaxAttempts + 1

LevelOf(n) == LevelIndex(execution_levels, n)

\* The level of n has passed its cancellation check and has been partitioned
LevelEntered(n) ==
    \/ LevelOf(n) < run.level_idx
    \/ LevelOf(n) = run.level_idx /\ run.pc \in {"dispatch", "join"}

HasFailedPredecessor(n) ==
    \E i \in DOMAIN get_dependencies(graph, n) :
        node_states[get_dependencies(graph, n)[i]].status = "Failed"

\* C8: a node with a Failed immediate predecessor whose level has been
\* entered is Skipped with reason "Dependency failed" and was never started.
C8_FailedPredecessorSkips ==
    \A n \in DOMAIN node_states :
        (LevelEntered(n) /\ HasFailedPredecessor(n)) =>
            /\ node_states[n].status = "Skipped"
            /\ node_states[n].error = "Dependency failed"
            /\ ~node_states[n].started

C8_Witness ==
    \E n \in DOMAIN node_states :
        /\ LevelEntered(n)
        /\ HasFailedPredecessor(n)
        /\ node_states[n].status = "Skipped"
        /\ \E i \in DOMAIN get_dependencies(graph, n) :
              node_states[get_dependencies(graph, n)[i]].status = "Completed"

\* C9: once a node has failed, every node reachable from it through edges
\* ends Skipped (stated for executions that ran to their end uncancelled).
C9_SkipIsTransitive ==
    (run.pc = "done" /\ cancels.started = 0) =>
        \A f \in DOMAIN node_states : \A n \in DOMAIN node_states :
            (node_states[f].status = "Failed" /\ <<f, n>> \in Reaches(graph)) =>
                node_states[n].status = "Skipped"

\* C10: a node is Running only when every one of its immediate predecessors
\* is Completed.
C10_RunningAfterPredecessors ==
    \A n \in DOMAIN node_states :
        node_states[n].status = "Running" =>
            \A i \in DOMAIN get_dependencies(graph, n) :
                node_states[get_dependencies(graph, n)[i]].status = "Completed"

\* C11: in enhanced execution, what a node reads of the context when its
\* condition is evaluated or its prompt is built contains the output of every
\* node of a lower level whose wait returned an output.
C11_LowerLevelOutputsVisible ==
    \A n \in DOMAIN node_states : \A m \in DOMAIN node_states :
        (LevelOf(m) < LevelOf(n) /\ tasks[m].result = "Ok" /\ tasks[m].output) =>
            /\ context.condition_view[n] # NotRead => m \in context.condition_view[n]
            /\ context.prompt_view[n] # NotRead => m \in context.prompt_view[n]

C11_Witness ==
    \E n \in DOMAIN node_states :
        /\ context.condition_view[n] # NotRead
        /\ context.prompt_view[n] # NotRead
        /\ Cardinality(context.prompt_view[n]) = 2
        /\ node_states[n].status = "Completed"


\* C12: when the execution has terminated, every node whose task ended in an
\* error has status Failed and is listed among the failed nodes.
C12_ErrorBecomesNodeFailure ==
    run.pc = "done" =>
        \A n \in DOMAIN node_states :
            tasks[n].result = "Err" =>
                /\ node_states[n].status = "Failed"
                /\ n \in run.failed_nodes

\* C13: a node's progress is 100 exactly when its status is Completed or
\* Skipped.
C13_ProgressIffCompletedOrSkipped ==
    \A n \in DOMAIN node_states :
        node_states[n].progress = 100 <=>
            node_states[n].status \in {"Completed", "Skipped"}

TerminalStatuses == {"Completed", "Failed", "Cancelled"}

\* C14: the overall progress of an execution is 100 exactly when the
\* execution is terminal and none of its nodes is Failed.
C14_FullProgressIffCleanTerminal ==
    execute_result = "Ok" =>
        (get_overall_progress(node_states) = 100 <=>
            /\ status \in TerminalStatuses
            /\ \A n \in DOMAIN node_states : node_states[n].status # "Failed")

\* C15: with max_attempts = 2, a node whose attempts ended in two timeout
\* errors is Failed.
C15_TwoTimeoutsFail ==
    \A n \in DOMAIN node_states :
        (/\ mode = "enhanced"
         /\ retry_config.max_attempts = 2
         /\ retry_check(retry_config, to_lowercase(ErrorText("timeout")))
         /\ tasks[n].errors = <<"timeout", "timeout">>) =>
            node_states[n].status = "Failed"

\* The error of the last call matches one of the configuration's no-retry
\* patterns, both in lower case
MatchesNoRetryPattern ==
    \E p \in retry_state.config.no_retry_patterns :
        LET e == to_lowercase(retry_state.error)
            q == to_lowercase(p)
        IN \E i \in 1..Len(e) :
            /\ i + Len(q) - 1 <= Len(e)
            /\ \A k \in 1..Len(q) : e[i + k - 1] = q[k]

\* C16 as stated: should_retry returns NoRetry whenever the error matches a
\* no-retry pattern, whatever the attempt count, the flags and the retry
\* patterns are.
C16_Original ==
    (retry_state.decision # "none" /\ MatchesNoRetryPattern) =>
        retry_state.decision = "NoRetry"

\* C16: when the error matches a no-retry pattern, should_retry never returns
\* Retry, whatever the flags and the retry patterns are: it returns Exhausted
\* when the incremented attempt count exceeds max_attempts, and NoRetry
\* otherwise.
C16_NoRetryPatternNeverRetried ==
    (retry_state.decision # "none" /\ MatchesNoRetryPattern) =>
        retry_state.decision =
            IF retry_state.current_attempt > retry_state.config.max_attempts
            THEN "Exhausted" ELSE "NoRetry"

C16_Witness ==
    /\ MatchesNoRetryPattern
    /\ retry_state.decision = "NoRetry"
    /\ retry_state.current_attempt = 2
    /\ retry_state.config.retry_on_timeout
    /\ retry_state.error = <<"Authentication", "failed", "Timeout">>
    /\ <<"timeout">> \in retry_state.config.retry_patterns

\* C17: with the fallback strategy Skip, a node whose task ended in a final
\* error (retries exhausted, or an error that is not retried) is Skipped and
\* is not in the failed set.
C17_SkipFallbackSkips ==
    \A n \in DOMAIN node_states :
        (/\ mode = "enhanced"
         /\ fallback = "Skip"
         /\ tasks[n].pc = "done"
         /\ tasks[n].result = "Err") =>
            /\ node_states[n].status = "Skipped"
            /\ n \notin run.failed_nodes

RunningNodes == {n \in DOMAIN node_states : node_states[n].status = "Running"}

\* C18: at any instant of an execution, the number of Running nodes is at most
\* max_concurrent_agents.
C18_RunningWithinLimit ==
    Cardinality(RunningNodes) <= resources.config.max_concurrent_agents

\* t comes before u in the order of the queue: higher priority, or the same
\* priority and not queued later
ComesFirst(t, u) ==
    \/ t.priority > u.priority
    \/ t.priority = u.priority /\ t.queued_at <= u.queued_at

\* C19: dequeue_task returns the queued task with the highest priority, and
\* among tasks of equal priority the one with the oldest queued_at.
C19_DequeueHighestPriority ==
    (resources.returned.op = "dequeue_task" /\ resources.returned.queue # {}) =>
        \E t \in resources.returned.task :
            \A u \in resources.returned.queue : ComesFirst(t, u)

\* Callers whose acquire of `role` has passed the role check and whose release
\* has not yet decremented the role's count
RoleHolders(rm, role) ==
    {c \in Callers : rm.callers[c].role = role
                      /\ rm.callers[c].pc \in {"count", "holding"}}

RoleWithinCap(rm, role) ==
    /\ rm.active_per_role[role] <= rm.config.max_agents_per_role[role]
    /\ Cardinality(RoleHolders(rm, role)) <= rm.config.max_agents_per_role[role]

\* The step of caller c is an acquire refused with RoleLimitExceeded
Refused(c) ==
    /\ resources.callers[c].pc = "role_check"
    /\ resources'.callers[c].result = "RoleLimitExceeded"

\* C20: under concurrent acquire and release calls, the active count of a
\* capped role never exceeds its cap, and an acquire refused with
\* RoleLimitExceeded gives its semaphore permit back and leaves the role
\* counters and the total active counter unchanged.
C20_RoleCapEnforced ==
    [][/\ \A role \in DOMAIN resources.config.max_agents_per_role :
            RoleWithinCap(resources, role) /\ RoleWithinCap(resources', role)
       /\ \A c \in Callers :
            Refused(c) =>
                /\ resources'.permits = resources.permits + 1
                /\ resources'.active_per_role = resources.active_per_role
                /\ resources'.active_agents = resources.active_agents]_vars

C20_Witness ==
    \E c \in Callers, d \in Callers :
        /\ resources.callers[c].result = "RoleLimitExceeded"
        /\ resources.callers[c].pc = "idle"
        /\ resources.callers[d].pc = "holding"
        /\ resources.callers[d].role = "implementer"
        /\ resources.active_per_role["implementer"] = RoleCap
        /\ resources.permits = MaxPermits - 1

\* What reading back the file of the k-th saved checkpoint gives
ReadBack(k) ==
    from_str(checkpoints.dir[checkpoint_filename(checkpoints.saved[k].checkpoint)])

\* C21: the file of the checkpoint saved last, read back, reproduces the node
\* state map, the levels, the variables and the per-node outputs the
\* execution had when the checkpoint was taken.
C21_CheckpointReproducesExecution ==
    checkpoints.saved # <<>> =>
        LET k == Len(checkpoints.saved)
            state == checkpoints.saved[k].state
        IN /\ ReadBack(k).node_states = state.node_states
           /\ ReadBack(k).execution_levels = state.execution_levels
           /\ ReadBack(k).variables = state.variables
           /\ ReadBack(k).outputs = state.outputs

SavedIds == {checkpoints.saved[k].checkpoint.id : k \in DOMAIN checkpoints.saved}

SavedOf(execution_id) ==
    {k \in DOMAIN checkpoints.saved :
        checkpoints.saved[k].checkpoint.execution_id = execution_id}

\* C22: after a checkpoint has been saved, load by its ID returns it, and
\* load_latest of its execution returns the checkpoint of that execution
\* that was saved last.
C22_LoadReturnsSaved ==
    /\ (checkpoints.loaded.op = "load" /\ checkpoints.loaded.arg \in SavedIds) =>
            \E c \in checkpoints.loaded.result : c.id = checkpoints.loaded.arg
    /\ (checkpoints.loaded.op = "load_latest"
            /\ SavedOf(checkpoints.loaded.arg) # {}) =>
            \E c \in checkpoints.loaded.result :
                LET of == SavedOf(checkpoints.loaded.arg)
                    last == CHOOSE k \in of : \A j \in of : j <= k
                IN c.id = checkpoints.saved[last].checkpoint.id


\* C23: once the PTY stream of an agent has closed, the agent's entry in the
\* agent table is not left Running: it has been marked Completed (a later kill
\* or removal aside), whether the stream closed before or after the spawner
\* inserted the agent into the table.
C23_ClosedStreamMarksCompleted ==
    \A n \in DOMAIN agents :
        agents[n].stream = "closed" => agents[n].table # "Running"


KillCalls(op) ==
    {k \in DOMAIN registry.calls :
        /\ registry.calls[k].op = op
        /\ registry.calls[k].io = "ok"}

\* C24: kill_graceful on a registered agent, no system call failing, sends
\* SIGTERM, sends SIGKILL if the process has not exited at the end of the grace
\* period, and returns true exactly when the process is terminated.
C24_KillGracefulTerminates ==
    \A k \in KillCalls("kill_graceful") :
        LET call == registry.calls[k]
        IN call.before.processes[call.id] # None =>
            /\ call.signals # <<>> /\ call.signals[1] = "SIGTERM"
            /\ call.at_deadline = "running" =>
                    \E i \in DOMAIN call.signals : call.signals[i] = "SIGKILL"
            /\ call.result = "true" <=> call.after.os[call.id] = "exited"

RegistryAndTable(snapshot) ==
    [processes |-> snapshot.processes, start_times |-> snapshot.start_times,
     agents |-> snapshot.agents]

\* The calls that repeat the call made just before them: same operation, same
\* agent, nothing happening in between
Repeated(op) ==
    {k \in KillCalls(op) :
        /\ k - 1 \in KillCalls(op)
        /\ registry.calls[k - 1].id = registry.calls[k].id
        /\ registry.calls[k].before = registry.calls[k - 1].after}

\* C25: a second kill_agent on the same agent ID, through the command or
\* through the route, returns what the first call returned and leaves the
\* agent table and the registry as the first call left them.
C25_KillAgentIdempotent ==
    \A k \in Repeated("kill_agent") \cup Repeated("kill_agent_route") :
        /\ registry.calls[k].result = registry.calls[k - 1].result
        /\ RegistryAndTable(registry.calls[k].after)
               = RegistryAndTable(registry.calls[k - 1].after)

\* C26: cleanup_old_agents(max_age), no system call failing, removes an agent
\* only if its process has exited and it is older than max_age.
C26_CleanupRemovesOnlyOldExited ==
    \A k \in KillCalls("cleanup_old_agents") :
        LET call == registry.calls[k]
        IN \A id \in call.removed :
            /\ call.before.os[id] = "exited"
            /\ \E start \in call.before.start_times[id] :
                    elapsed(start, call.before.now) > call.max_age


\* An edge of the description, or a dependency of a task of the plan, names an
\* ID that no node has
UnknownEndpoint ==
    LET ids == {parsing.nodes[i].id : i \in DOMAIN parsing.nodes}
    IN \/ \E i \in DOMAIN parsing.edges :
            parsing.edges[i][1] \notin ids \/ parsing.edges[i][2] \notin ids
       \/ \E i \in DOMAIN parsing.nodes :
            \E j \in DOMAIN parsing.nodes[i].depends_on :
                parsing.nodes[i].depends_on[j] \notin ids

DuplicateId ==
    \E i, j \in DOMAIN parsing.nodes : i < j /\ parsing.nodes[i].id = parsing.nodes[j].id

\* C27: a description or plan with an edge to an unknown node is rejected with
\* NodeNotFound, one with a duplicated node ID is rejected, and a graph that is
\* built holds every node of the input as it was given.
C27_UnknownOrDuplicateRejected ==
    parsing.result.op # "none" =>
        /\ UnknownEndpoint => ~parsing.result.ok /\ parsing.result.err = "NodeNotFound"
        /\ DuplicateId => ~parsing.result.ok
        /\ parsing.result.ok =>
                \A i \in DOMAIN parsing.nodes :
                    parsing.result.nodes[parsing.nodes[i].id] = parsing.nodes[i].label


\* C28: an execution ID that a submit operation has returned has an execution
\* record in the store, so that status(id) returns a summary, also while the
\* planner of a planner-driven execution is still running.
C28_ReturnedIdHasRecord ==
    execute_result = "Ok" => stored

\* C29: a level that was cancelled while its node tasks were in flight emits no
\* LevelCompleted event.
C29_NoLevelCompletedAfterCancel ==
    observed.cancelled_in_flight \cap observed.level_completed = {}

\* C30: the progress percentages of the successive ProgressUpdate events of an
\* execution never decrease.
C30_ProgressNeverDecreases ==
    \A i, j \in DOMAIN observed.progress_updates :
        i <= j => observed.progress_updates[i] <= observed.progress_updates[j]


\* The node n of an enhanced execution has the condition OnFailure(p), p is an
\* immediate predecessor of n and p has failed
OnFailureOfFailed(n) ==
    /\ node_configs[n].type = "OnFailure"
    /\ \E i \in DOMAIN get_dependencies(graph, n) :
            get_dependencies(graph, n)[i] = node_configs[n].predecessor_id
    /\ node_states[node_configs[n].predecessor_id].status = "Failed"

\* C31: in enhanced execution a node with a Failed immediate predecessor whose
\* level has been entered is Skipped with reason "Dependency failed", has never
\* been started and its condition has not been evaluated; so is a node with the
\* condition OnFailure(A) when A failed.
C31_FailedDependencyBeforeCondition ==
    mode = "enhanced" =>
        \A n \in DOMAIN node_states :
            (LevelEntered(n) /\ (HasFailedPredecessor(n) \/ OnFailureOfFailed(n))) =>
                /\ node_states[n].status = "Skipped"
                /\ node_states[n].error = "Dependency failed"
                /\ ~node_states[n].started
                /\ context.condition_view[n] = NotRead

C31_Witness ==
    /\ mode = "enhanced"
    /\ \E n \in DOMAIN node_states :
        /\ LevelEntered(n)
        /\ OnFailureOfFailed(n)
        /\ node_states[n].status = "Skipped"
        /\ node_states[n].error = "Dependency failed"


\* C32: cancel_workflow_execution called with the ID of a running execution
\* that execute_enhanced_workflow started returns true and sends the
\* cancellation signal of that execution.
C32_CancelCommandReachesEnhanced ==
    (mode = "enhanced" /\ cancels.command # "none" /\ cancels.command_running) =>
        /\ cancels.command = "true"
        /\ cancels.started > 0


\* C33: once the status of an execution is Completed, Failed or Cancelled no
\* step changes it, a cancel after the end and the end of the level loop after
\* a cancel included.
C33_TerminalStatusIsFinal ==
    [][(status \in TerminalStatuses) => (status' = status)]_vars

\* A step of the level loop or of a node task that reads a cancellation
\* receiver holding at least one unreceived signal stops there: the loop
\* returns at its level-entry check, the task ends with the Cancelled error
ObservedAtNextRead ==
    /\ (/\ run.pc = "check"
        /\ run.level_idx <= Len(execution_levels)
        /\ run.cancel_rx >= 1
        /\ run' # run) => run'.pc = "done"
    /\ \A n \in DOMAIN tasks :
          (/\ tasks[n].pc = "poll"
           /\ tasks[n].cancel_rx >= 1
           /\ tasks'[n] # tasks[n]) =>
              /\ tasks'[n].pc = "done"
              /\ tasks'[n].error = "cancelled"

\* C34: after cancel has been called twice on an execution (or cancel and then
\* cancel_all) the level loop still stops at its next level-entry check and
\* every in-flight node task still observes the signal at its next poll, as
\* after one call.
C34_SecondCancelSameEffect ==
    [][(cancels.started = 2 /\ cancels' = cancels) => ObservedAtNextRead]_vars

\* The node task of n calls spawn_agent and gets an agent
SpawnsAgent(n) == tasks[n].pc = "spawn" /\ tasks'[n].pc = "insert"

\* C35: after a cancel call on an enhanced execution has returned, no node
\* task of the execution spawns a new agent, a task that was in its retry
\* backoff when the cancel arrived included.
C35_NoSpawnAfterCancel ==
    [][(mode = "enhanced" /\ cancels.returned > 0) =>
          \A n \in DOMAIN tasks : ~SpawnsAgent(n)]_vars

\* The agent of the started node n has been taken out of the agent table by
\* the kill_agent command or by DELETE /api/agents/:id (nothing else removes
\* an entry), and the node task has returned
KilledFromOutside(n) ==
    /\ node_states[n].started
    /\ tasks[n].pc = "done"
    /\ agents[n].table = "absent"

\* C36: a node whose agent was killed from outside the executor while the node
\* was Running does not end with the status Completed.
C36_KilledNodeNotCompleted ==
    \A n \in DOMAIN node_states :
        KilledFromOutside(n) => node_states[n].status # "Completed"

\* C37: an agent whose status in the agent table is Killed is not changed to
\* Completed by a later step, the close of its PTY stream included.
C37_KilledStaysKilled ==
    [][\A n \in DOMAIN agents :
          (n \in DOMAIN agents' /\ agents[n].table = "Killed") =>
              agents'[n].table # "Completed"]_vars

Unresolved(i) ==
    /\ i \in DOMAIN registry.receivers
    /\ registry.receivers[i].state = "pending"

\* C38: a completion subscription of an agent whose PTY stream has closed is
\* eventually resolved, also when subscribe_completion was called after the
\* stream had closed.
C38_SubscriptionEventuallyResolved ==
    \A i \in 1..MaxSubscriptions :
        (Unresolved(i) /\ registry.streams[registry.receivers[i].agent] = "closed")
            ~> ~Unresolved(i)


\* No acquire or release is in progress
NoCallInProgress == \A c \in Callers : resources.callers[c].pc \in {"idle", "holding"}

PermitsHeld == {c \in Callers : resources.callers[c].pc = "holding"}

\* C39: after any sequence of acquire, release, permit-drop and update_config
\* operations active_count equals the number of resource permits currently
\* held and does not exceed max_concurrent_agents.
C39_ActiveCountIsPermitsHeld ==
    NoCallInProgress =>
        /\ resources.active_agents = Cardinality(PermitsHeld)
        /\ resources.active_agents <= resources.config.max_concurrent_agents


\* C40: under concurrent try_acquire calls the token count does not exceed the
\* capacity, and the calls that returned true are no more than the initial
\* capacity plus the tokens the refills have added.
C40_NoTokenRestored ==
    LET capacity == max_tokens(resources.config.rate_limit_per_minute)
    IN /\ resources.tokens <= capacity
       /\ resources.limiter.acquired <= capacity + resources.limiter.added

====
